---- MODULE Spec2Model ----
(***************************************************************************)
(* A model of the telegram parsing core of bvs-analytics:                  *)
(*   app/utils/phone_normalizer.py   normalize_phone_number(s)             *)
(*   app/utils/RegionLocator.py      RegionLocator.get_region              *)
(*   parsers/flight_parser.py        FlightParser.parse_latlon,            *)
(*                                   parse_block,                          *)
(*                                   parse_date_yymmdd, parse_time_hhmm,   *)
(*                                   parse_zone, lookup_aerodrome,         *)
(*                                   get_flight_region,                    *)
(*                                   _search_region_in_vicinity,           *)
(*                                   parse_operator, parse_row             *)
(*   parsers/telegram_parser.py      TelegramParser.calculate_duration,    *)
(*                                   parse_shr_message,                    *)
(*                                   _extract_coordinates,                 *)
(*                                   _extract_operator,                    *)
(*                                   parse_flight_messages,                *)
(*                                   parse_flight_messages_2025            *)
(*   parsers/data_processor.py       DataProcessor.process_excel_file      *)
(*                                                                         *)
(* Python strings are sequences of one-character strings.  A character     *)
(* outside ASCII is written by name ("u0663" is ARABIC-INDIC DIGIT THREE,  *)
(* "cyr_ES" is CYRILLIC CAPITAL LETTER ES, ...).  A Python value is a      *)
(* record [tag, val]: tag is "str", "int" or "None" and val the characters *)
(* (the decimal digits of an int).  Latitudes and longitudes are integers  *)
(* in units of 1e-6 degree, which is the precision round(x, 6) keeps.      *)
(***************************************************************************)
EXTENDS Integers, Sequences, FiniteSets, TLC

VARIABLES
    phone,          \* argument of the last normalize_phone_number call
    phone_result,   \* what that call returned
    phone_list,     \* argument of the last normalize_phone_numbers call
    phone_numbers,  \* what that call returned
    compact,        \* argument of the last parse_latlon call
    latlon,         \* what that call returned
    zone_token,     \* token parse_row synthesised from a zone coordinate
    zone_latlon,    \* parse_latlon of that token
    shr_text,       \* parse_row's shr_text
    dep_text,       \* parse_row's dep_text
    arr_text,       \* parse_row's arr_text
    flight,         \* the flight record parse_row returned
    block_text,     \* argument of the last parse_block call
    block_result,   \* what that call returned
    zone_text,      \* argument of the last parse_zone call
    zone_result,    \* what that call returned
    excel_file,     \* the workbook handed to process_excel_file: its sheets, or unreadable
    batch_result,   \* what process_excel_file returned
    geojson,        \* the file at geojson_path when DataProcessor is constructed
    processor,      \* the DataProcessor constructed, with its region_locator
    enrich_flight,  \* argument of the last _enrich_with_region_data call
    enrich_result,  \* the region keys that call added
    tg_shr,         \* parse_flight_messages' shr_msg
    tg_dep,         \* parse_flight_messages' dep_msg
    tg_arr,         \* its arr_msg, and the argument of parse_arr_message
    tg_arr_data,    \* what parse_arr_message returned
    tg_flight,      \* what parse_flight_messages returned
    shr_message,    \* argument of the last parse_shr_message or _extract_operator call
    shr_data,       \* what parse_shr_message returned
    shr_operator,   \* what _extract_operator returned
    region_locator, \* FlightParser.region_locator
    region_flight,  \* argument of the last get_flight_region or _search_region_in_vicinity call
    region_result   \* what that call returned, and the get_region calls it made

phone_vars == <<phone, phone_result, phone_list, phone_numbers>>

coord_vars == <<compact, latlon, zone_token, zone_latlon>>

row_vars == <<shr_text, dep_text, arr_text, flight>>

block_vars == <<block_text, block_result>>

zone_vars == <<zone_text, zone_result>>

batch_vars == <<excel_file, batch_result>>

startup_vars == <<geojson, processor, enrich_flight, enrich_result>>

telegram_vars == <<tg_shr, tg_dep, tg_arr, tg_arr_data, tg_flight>>

shr_vars == <<shr_message, shr_data, shr_operator>>

region_vars == <<region_locator, region_flight, region_result>>

vars == <<phone_vars, coord_vars, row_vars, block_vars, zone_vars, batch_vars, startup_vars, telegram_vars, shr_vars, region_vars>>

\* The variables of the other components, which a call leaves alone.
not_phone == <<coord_vars, row_vars, block_vars, zone_vars, batch_vars, startup_vars, telegram_vars, shr_vars, region_vars>>

not_coord == <<phone_vars, row_vars, block_vars, zone_vars, batch_vars, startup_vars, telegram_vars, shr_vars, region_vars>>

not_row == <<phone_vars, coord_vars, block_vars, zone_vars, batch_vars, startup_vars, telegram_vars, shr_vars, region_vars>>

not_block == <<phone_vars, coord_vars, row_vars, zone_vars, batch_vars, startup_vars, telegram_vars, shr_vars, region_vars>>

not_zone == <<phone_vars, coord_vars, row_vars, block_vars, batch_vars, startup_vars, telegram_vars, shr_vars, region_vars>>

not_batch == <<phone_vars, coord_vars, row_vars, block_vars, zone_vars, startup_vars, telegram_vars, shr_vars, region_vars>>

not_startup == <<phone_vars, coord_vars, row_vars, block_vars, zone_vars, batch_vars, telegram_vars, shr_vars, region_vars>>

not_telegram == <<phone_vars, coord_vars, row_vars, block_vars, zone_vars, batch_vars, startup_vars, shr_vars, region_vars>>

not_shr == <<phone_vars, coord_vars, row_vars, block_vars, zone_vars, batch_vars, startup_vars, telegram_vars, region_vars>>

not_region == <<phone_vars, coord_vars, row_vars, block_vars, zone_vars, batch_vars, startup_vars, telegram_vars, shr_vars>>

(***************************************************************************)
(* Characters                                                              *)
(***************************************************************************)
AsciiDigits == <<"0", "1", "2", "3", "4", "5", "6", "7", "8", "9">>

\* Decimal digits outside ASCII that Python's \d, str.isdigit and int accept.
UnicodeDigits == <<"u0660", "u0661", "u0662", "u0663">>

LowerLetters == <<"a", "b", "c", "d", "e", "f", "g", "h", "i", "j", "k", "l", "m",
                  "n", "o", "p", "q", "r", "s", "t", "u", "v", "w", "x", "y", "z">>

UpperLetters == <<"A", "B", "C", "D", "E", "F", "G", "H", "I", "J", "K", "L", "M",
                  "N", "O", "P", "Q", "R", "S", "T", "U", "V", "W", "X", "Y", "Z">>

\* The Cyrillic letters of FlightParser.RU2EN, lower case then upper case.
CyrLower == <<"cyr_es", "cyr_yu", "cyr_ve", "cyr_ze">>

CyrUpper == <<"cyr_ES", "cyr_YU", "cyr_VE", "cyr_ZE">>

Range(s) == {s[i] : i \in DOMAIN s}

IndexOf(s, c) == CHOOSE i \in DOMAIN s : s[i] = c

IsAsciiDigit(c) == c \in Range(AsciiDigits)

\* \d of a str pattern: any Unicode decimal digit.
IsDigit(c) == c \in Range(AsciiDigits) \cup Range(UnicodeDigits)

\* int(c) of one decimal digit.
DigitValue(c) ==
    IF c \in Range(AsciiDigits) THEN IndexOf(AsciiDigits, c) - 1
    ELSE IndexOf(UnicodeDigits, c) - 1

\* \s, and what str.strip() removes.
IsSpace(c) == c \in {" ", "\t", "\n", "\r"}

\* str.upper() of one character.
UpperChar(c) ==
    IF c \in Range(LowerLetters) THEN UpperLetters[IndexOf(LowerLetters, c)]
    ELSE IF c \in Range(CyrLower) THEN CyrUpper[IndexOf(CyrLower, c)]
    ELSE c

upper(s) == [i \in DOMAIN s |-> UpperChar(s[i])]

RECURSIVE lstrip(_)
lstrip(s) == IF s # <<>> /\ IsSpace(Head(s)) THEN lstrip(Tail(s)) ELSE s

RECURSIVE rstrip(_)
rstrip(s) ==
    IF s # <<>> /\ IsSpace(s[Len(s)]) THEN rstrip(SubSeq(s, 1, Len(s) - 1)) ELSE s

strip(s) == rstrip(lstrip(s))

\* int(s) of a string of decimal digits.
RECURSIVE int(_)
int(s) == IF s = <<>> THEN 0 ELSE 10 * int(SubSeq(s, 1, Len(s) - 1)) + DigitValue(s[Len(s)])

RECURSIVE Pow10(_)
Pow10(n) == IF n = 0 THEN 1 ELSE 10 * Pow10(n - 1)

\* f"{n:0{w}d}": the w decimal digits of n.
NumStr(n, w) == [i \in 1..w |-> AsciiDigits[((n \div Pow10(w - i)) % 10) + 1]]

(***************************************************************************)
(* Python values                                                           *)
(***************************************************************************)
PyNone == [tag |-> "None", val |-> <<>>]

PyStr(s) == [tag |-> "str", val |-> s]

PyInt(n) == [tag |-> "int", val |-> NumStr(n, 1)]

\* An exception leaving the function.
PyRaise == [tag |-> "raise", val |-> <<>>]

\* The value of a variable before the first call.
NotCalled == [tag |-> "nocall", val |-> <<>>]

isinstance_str(v) == v.tag = "str"

\* bool(v): None, "", 0 and [] are false.
truthy(v) ==
    \/ v.tag = "str" /\ v.val # <<>>
    \/ v.tag = "int" /\ v.val # <<"0">>
    \/ v.tag = "list" /\ v.val # <<>>

(***************************************************************************)
(* app/utils/phone_normalizer.py                                           *)
(***************************************************************************)
\* re.sub(r'[^\d]', '', s)
digits_only(s) == SelectSeq(s, IsDigit)

\* Lines 37-52, with the 12-digit case accepting any second digit.
format_digits_any12(d) ==
    IF Len(d) = 11 THEN
        IF d[1] = "8" THEN PyStr(<<"7">> \o Tail(d))
        ELSE IF d[1] = "7" THEN PyStr(d)
        ELSE PyNone
    ELSE IF Len(d) = 10 THEN PyStr(<<"7">> \o d)
    ELSE IF Len(d) = 12 /\ d[1] = "7" THEN PyStr(Tail(d))
    ELSE PyNone

\* Lines 37-52: the formats accepted, by the number of digits.
format_digits(d) ==
    IF Len(d) = 11 THEN
        IF d[1] = "8" THEN PyStr(<<"7">> \o Tail(d))
        ELSE IF d[1] = "7" THEN PyStr(d)
        ELSE PyNone
    ELSE IF Len(d) = 10 THEN PyStr(<<"7">> \o d)
    ELSE IF Len(d) = 12 /\ d[1] = "7" THEN
        IF d[2] = "7" THEN PyStr(Tail(d)) ELSE PyNone
    ELSE PyNone

normalize_phone_number(p) ==
    IF ~truthy(p) \/ ~isinstance_str(p) THEN PyNone
    ELSE format_digits(digits_only(strip(p.val)))

\* The list argument is [none |-> BOOLEAN, items |-> sequence of values].
RECURSIVE normalize_items(_)
normalize_items(items) ==
    IF items = <<>> THEN <<>>
    ELSE LET n == normalize_phone_number(Head(items)) IN
         (IF truthy(n) THEN <<n.val>> ELSE <<>>) \o normalize_items(Tail(items))

normalize_phone_numbers(l) ==
    IF l.none \/ l.items = <<>> THEN <<>> ELSE normalize_items(l.items)

(***************************************************************************)
(* parsers/flight_parser.py: FlightParser.parse_latlon                     *)
(***************************************************************************)
\* An Optional[float] in units of 1e-6 degree.
NoneF == [some |-> FALSE, v |-> 0]

SomeF(x) == [some |-> TRUE, v |-> x]

\* What a parse_latlon call left: a returned pair, or an exception.
Returned(lat, lon) == [status |-> "returned", lat |-> lat, lon |-> lon]

Raised == [status |-> "raised", lat |-> NoneF, lon |-> NoneF]

NotParsed == [status |-> "pending", lat |-> NoneF, lon |-> NoneF]

\* str.translate(FlightParser.RU2EN) of one character.
RU2EN(c) ==
    IF c \in {"cyr_ES", "cyr_es"} THEN "N"
    ELSE IF c \in {"cyr_YU", "cyr_yu"} THEN "S"
    ELSE IF c \in {"cyr_VE", "cyr_ve"} THEN "E"
    ELSE IF c \in {"cyr_ZE", "cyr_ze"} THEN "W"
    ELSE c

translate(s) == [i \in DOMAIN s |-> RU2EN(s[i])]

\* s[i:j]
slice(s, i, j) == SubSeq(s, i + 1, IF j < Len(s) THEN j ELSE Len(s))

AllDigits(s, from, to) == \A i \in from..to : IsDigit(s[i])

\* The pattern with \d{4,6} and \d{5,7}, as TelegramParser.coord_pattern has it.
latlon_lengths_loose == [lat |-> {4, 5, 6}, lon |-> {5, 6, 7}]

\* The digit counts of (\d{4}|\d{6}) and (\d{5}|\d{7}).
latlon_lengths == [lat |-> {4, 6}, lon |-> {5, 7}]

\* re.match(r'^(\d{4}|\d{6})([NS])(\d{5}|\d{7})([EW])$', s): the set of
\* <<a, b>>, the lengths of the two digit groups, with which s matches.
\* '$' matches at the end and before a newline that ends the string.
latlon_match(s) ==
    {ab \in latlon_lengths.lat \X latlon_lengths.lon :
        LET a == ab[1]
            b == ab[2]
            n == a + b + 2
        IN  /\ \/ Len(s) = n
               \/ Len(s) = n + 1 /\ s[n + 1] = "\n"
            /\ AllDigits(s, 1, a)
            /\ s[a + 1] \in {"N", "S"}
            /\ AllDigits(s, a + 2, a + b + 1)
            /\ s[n] \in {"E", "W"}}

\* round(x, 6) of x = (mm * 60 + ss) / 3600 degrees, in 1e-6 degree: the
\* nearest integer to (mm * 60 + ss) * 2500 / 9, which is never a tie.
round6(seconds) == (seconds * 5000 + 9) \div 18

\* The same, truncated instead of rounded.
degrees_truncated(deg, mm, ss) == deg * 1000000 + ((mm * 60 + ss) * 2500) \div 9

\* round(deg + mm / 60 + ss / 3600, 6) in 1e-6 degree.
degrees(deg, mm, ss) == deg * 1000000 + round6(mm * 60 + ss)

\* No range check at all.
in_range_always(deg, mm, ss, limit) == TRUE

\* -limit <= deg + mm / 60 + ss / 3600 <= limit, for the degrees, minutes
\* and seconds of a digit group, which are not negative.
in_range(deg, mm, ss, limit) == deg * 3600 + mm * 60 + ss <= limit * 3600

parse_latlon(c) ==
    IF ~isinstance_str(c) THEN Returned(NoneF, NoneF)
    ELSE LET s == translate(upper(strip(c.val)))
             m == latlon_match(s)
         IN  IF m = {} THEN Returned(NoneF, NoneF)
             ELSE LET ab == CHOOSE x \in m : TRUE
                      a == ab[1]
                      b == ab[2]
                      lat_str == SubSeq(s, 1, a)
                      ns == s[a + 1]
                      lon_str == SubSeq(s, a + 2, a + b + 1)
                      ew == s[a + b + 2]
                      dd == int(slice(lat_str, 0, 2))
                      lat_mm == int(slice(lat_str, 2, 4))
                      lat_ss == IF a = 4 THEN 0 ELSE int(slice(lat_str, 4, 6))
                      ddd == int(slice(lon_str, 0, 3))
                      lon_mm == int(slice(lon_str, 3, 5))
                      lon_ss == IF b = 5 THEN 0 ELSE int(slice(lon_str, 5, 7))
                  IN  IF ~in_range(dd, lat_mm, lat_ss, 90)
                         \/ ~in_range(ddd, lon_mm, lon_ss, 180)
                      THEN Returned(NoneF, NoneF)
                      ELSE Returned(
                             SomeF((IF ns = "S" THEN -1 ELSE 1) * degrees(dd, lat_mm, lat_ss)),
                             SomeF((IF ew = "W" THEN -1 ELSE 1) * degrees(ddd, lon_mm, lon_ss)))

(***************************************************************************)
(* parse_row, lines 472-488: the token written from a zone coordinate      *)
(***************************************************************************)
Abs(x) == IF x < 0 THEN -x ELSE x

\* The values f"{abs(x):.2f}" can show, in 1/100 degree, for x in 1e-6
\* degree: the nearest one; where two are equally near the float's binary
\* expansion decides, and either may come out.
Hundredths(x) ==
    LET a == Abs(x)
        q == a \div 10000
        r == a % 10000
    IN  IF r < 5000 THEN {q} ELSE IF r > 5000 THEN {q + 1} ELSE {q, q + 1}

\* f"{abs(x):0{w}.2f}" for a value of h hundredths: zero-padded to w characters.
Fixed2(h, w) == NumStr(h \div 100, w - 3) \o <<".">> \o NumStr(h % 100, 2)

\* f"{abs(lat):06.2f}{'N' if lat >= 0 else 'S'}{abs(lon):07.2f}{'E' if lon >= 0 else 'W'}"
zone_tokens(lat, lon) ==
    {Fixed2(hlat, 6) \o <<IF lat >= 0 THEN "N" ELSE "S">>
       \o Fixed2(hlon, 7) \o <<IF lon >= 0 THEN "E" ELSE "W">> :
         hlat \in Hundredths(lat), hlon \in Hundredths(lon)}

(***************************************************************************)
(* parsers/flight_parser.py: FlightParser.parse_block                      *)
(***************************************************************************)
\* The first line break of t, or 0.
FirstBreak(t) ==
    IF \E i \in 1..Len(t) : t[i] \in {"\n", "\r"}
    THEN CHOOSE i \in 1..Len(t) :
            /\ t[i] \in {"\n", "\r"}
            /\ \A j \in 1..(i - 1) : t[j] \notin {"\n", "\r"}
    ELSE 0

\* str.splitlines(): "\n", "\r" and "\r\n" end a line.
RECURSIVE splitlines(_)
splitlines(t) ==
    IF t = <<>> THEN <<>>
    ELSE LET b == FirstBreak(t) IN
         IF b = 0 THEN <<t>>
         ELSE LET w == IF t[b] = "\r" /\ b < Len(t) /\ t[b + 1] = "\n" THEN 2 ELSE 1
              IN  <<SubSeq(t, 1, b - 1)>> \o splitlines(SubSeq(t, b + w, Len(t)))

\* The length of the longest prefix of s made of characters in set.
RECURSIVE PrefixLen(_, _)
PrefixLen(s, set) ==
    IF s # <<>> /\ Head(s) \in set THEN 1 + PrefixLen(Tail(s), set) ELSE 0

\* re.split(r"\s+", line) of a stripped line: its runs of other characters.
RECURSIVE split_whitespace(_)
split_whitespace(line) ==
    IF line = <<>> THEN <<>>
    ELSE LET n == Len(line) - Len(lstrip(line)) IN
         IF n > 0 THEN split_whitespace(lstrip(line))
         ELSE LET k == IF \E i \in 1..Len(line) : IsSpace(line[i])
                       THEN (CHOOSE i \in 1..Len(line) :
                               /\ IsSpace(line[i])
                               /\ \A j \in 1..(i - 1) : ~IsSpace(line[j])) - 1
                       ELSE Len(line)
              IN  <<SubSeq(line, 1, k)>> \o split_whitespace(SubSeq(line, k + 1, Len(line)))

\* str.rstrip("/")
RECURSIVE rstrip_slash(_)
rstrip_slash(s) ==
    IF s # <<>> /\ s[Len(s)] = "/" THEN rstrip_slash(SubSeq(s, 1, Len(s) - 1)) ELSE s

\* [A-Z0-9] under re.I
KeyChars == Range(UpperLetters) \cup Range(LowerLetters) \cup Range(AsciiDigits)

\* The KEY/value tokens of a line: lines 263-266.
RECURSIVE token_entries(_)
token_entries(tokens) ==
    IF tokens = <<>> THEN <<>>
    ELSE LET token == Head(tokens) IN
         (IF "/" \in Range(token)
          THEN LET first == CHOOSE j \in 1..Len(token) :
                               token[j] = "/" /\ \A h \in 1..(j - 1) : token[h] # "/"
               IN  << [key |-> upper(SubSeq(token, 1, first - 1)),
                       value |-> rstrip_slash(strip(SubSeq(token, first + 1, Len(token))))] >>
          ELSE <<>>)
         \o token_entries(Tail(tokens))

\* What one line adds to res: lines 250-266.
line_entries(raw_line) ==
    LET line == strip(raw_line) IN
    IF line = <<>> THEN <<>>
    ELSE IF line[1] = "-" /\ PrefixLen(Tail(line), KeyChars) > 0
    THEN LET n == PrefixLen(Tail(line), KeyChars)
         IN  << [key |-> upper(SubSeq(line, 2, n + 1)),
                 value |-> strip(SubSeq(line, n + 2, Len(line)))] >>
    ELSE token_entries(split_whitespace(line))

RECURSIVE lines_entries(_)
lines_entries(lines) ==
    IF lines = <<>> THEN <<>>
    ELSE line_entries(Head(lines)) \o lines_entries(Tail(lines))

\* res of parse_block, as the [key, value] pairs in the order appended.
parse_block(text) ==
    IF ~isinstance_str(text) \/ strip(text.val) = <<>> THEN <<>>
    ELSE LET t0 == strip(text.val)
             t == IF t0[1] = "(" /\ t0[Len(t0)] = ")" THEN SubSeq(t0, 2, Len(t0) - 1) ELSE t0
         IN  lines_entries(splitlines(t))

PyList(items) == [tag |-> "list", val |-> items]

\* block.get(key) of the dict parse_block returns: the value of a key that
\* occurred once, the list of the values of one that occurred more often.
get(block, key) ==
    LET hits == SelectSeq(block, LAMBDA e : e.key = key)
    IN  IF hits = <<>> THEN PyNone
        ELSE IF Len(hits) = 1 THEN PyStr(hits[1].value)
        ELSE PyList([i \in 1..Len(hits) |-> hits[i].value])

(***************************************************************************)
(* Regular expression pieces shared by parse_zone and parse_row            *)
(***************************************************************************)
\* The literal lit stands in s at position i.
LitAt(s, i, lit) ==
    /\ i >= 1
    /\ i + Len(lit) - 1 <= Len(s)
    /\ \A k \in 1..Len(lit) : s[i + k - 1] = lit[k]

\* The same under re.IGNORECASE, lit being in upper case.
LitAtI(s, i, lit) ==
    /\ i >= 1
    /\ i + Len(lit) - 1 <= Len(s)
    /\ \A k \in 1..Len(lit) : UpperChar(s[i + k - 1]) = lit[k]

\* The number of characters of the set from position i on.
RECURSIVE RunLen(_, _, _)
RunLen(s, i, set) == IF i <= Len(s) /\ s[i] \in set THEN 1 + RunLen(s, i + 1, set) ELSE 0

Digits == Range(AsciiDigits) \cup Range(UnicodeDigits)

Spaces == {" ", "\t", "\n", "\r"}

Letters == Range(UpperLetters) \cup Range(LowerLetters)

\* The member of a one-element set: Value({F(x) : x \in {e}}) is F(e) with e
\* computed once.
Value(S) == CHOOSE v \in S : TRUE

\* The smallest member of a set of positions, 0 for the empty set.
FirstOf(S) == IF S = {} THEN 0 ELSE CHOOSE p \in S : \A q \in S : p <= q

\* The length of the match at position i of <digits><lat letter><digits><lon
\* letter>, the digit counts taken from lens, or 0.  The digits end where a
\* letter stands, so at most one count of lens.lat and one of lens.lon fits.
CoordLen(s, i, lens, latL, lonL) ==
    LET a == RunLen(s, i, Digits) IN
    IF a \notin lens.lat \/ i + a > Len(s) \/ s[i + a] \notin latL THEN 0
    ELSE LET b == RunLen(s, i + a + 1, Digits) IN
         IF b \notin lens.lon \/ i + a + 1 + b > Len(s) \/ s[i + a + 1 + b] \notin lonL
         THEN 0
         ELSE a + b + 2

\* re.search of ((\d{4}|\d{6})([NS...])(\d{5}|\d{7})([EW...])) after the
\* literal prefix: group(1) of the leftmost match, or <<>>.
search_coord(s, prefix, latL, lonL) ==
    LET hits == {p \in 1..Len(s) :
                    /\ LitAt(s, p, prefix)
                    /\ CoordLen(s, p + Len(prefix), latlon_lengths, latL, lonL) > 0}
        p == FirstOf(hits)
    IN  IF p = 0 THEN <<>>
        ELSE SubSeq(s, p + Len(prefix),
                    p + Len(prefix) + CoordLen(s, p + Len(prefix), latlon_lengths, latL, lonL) - 1)

(***************************************************************************)
(* parsers/flight_parser.py: FlightParser.parse_zone                       *)
(***************************************************************************)
Chars_ZONA == <<"Z", "O", "N", "A">>

NoPoint == [lat |-> NoneF, lon |-> NoneF]

UnknownZone ==
    [type |-> "unknown", center |-> NoPoint, radius |-> [mant |-> 0, scale |-> 0],
     coordinates |-> <<>>, name |-> <<>>, zones |-> <<>>]

\* self.zones: the directory of named zones, each with the geometries
\* get_flight_region reads (a circle's centre, a polygon's first pair).
zones ==
    << [rvmname |-> <<"M", "R", "1">>,
        zones |-> << [type |-> "circle", center |-> <<55000000, 37000000>>,
                      coordinates |-> <<>>] >>],
       [rvmname |-> <<"M", "R", "2">>,
        zones |-> << [type |-> "polygon", center |-> <<>>,
                      coordinates |-> << <<60000000, 30000000>> >>],
                     [type |-> "circle", center |-> <<55000000, 37000000>>,
                      coordinates |-> <<>>] >>] >>

\* The ways (R\d+,?\d+)\s? and the coordinate and "/" after it match from
\* position r, the first character after "R": a digits, a comma or not, b
\* digits, a space or not.
circle_ways(s, r) ==
    {w \in (1..RunLen(s, r, Digits)) \X {0, 1} \X (1..Len(s)) \X {0, 1} :
        LET a == w[1]
            c == w[2]
            b == w[3]
            sp == w[4]
            t == r + a + c + b + sp
            n == CoordLen(s, t, latlon_lengths, {"N", "S"}, {"E", "W"})
        IN  /\ c = 1 => LitAt(s, r + a, <<",">>)
            /\ b <= RunLen(s, r + a + c, Digits)
            /\ sp = 1 => (r + a + c + b <= Len(s) /\ s[r + a + c + b] \in Spaces)
            /\ n > 0
            /\ LitAt(s, t + n, <<"/">>)}

\* The way a backtracking matcher finds first: each greedy piece as long as
\* it can be, the earlier piece deciding.
first_way(ways) ==
    CHOOSE w \in ways : \A v \in ways :
        \/ w[1] > v[1]
        \/ w[1] = v[1] /\ w[2] > v[2]
        \/ w[1] = v[1] /\ w[2] = v[2] /\ w[3] > v[3]
        \/ w[1] = v[1] /\ w[2] = v[2] /\ w[3] = v[3] /\ w[4] >= v[4]

\* Where the radius starts if "/ZONA (ZONA )?R" stands at p, or 0.
circle_head(s, p) ==
    IF ~LitAt(s, p, <<"/">> \o Chars_ZONA \o <<" ">>) THEN 0
    ELSE LET q == IF LitAt(s, p + 6, Chars_ZONA \o <<" ">>) THEN p + 11 ELSE p + 6
         IN  IF LitAt(s, q, <<"R">>) THEN q + 1 ELSE 0

\* Lines 316-319: the leftmost match of the circle pattern.
round_zone(s) ==
    LET hits == {p \in 1..Len(s) :
                    circle_head(s, p) > 0 /\ circle_ways(s, circle_head(s, p)) # {}}
        p == FirstOf(hits)
    IN  IF p = 0 THEN [found |-> FALSE, mant |-> <<>>, scale |-> 0, token |-> <<>>]
        ELSE LET r == circle_head(s, p)
                 w == first_way(circle_ways(s, r))
                 t == r + w[1] + w[2] + w[3] + w[4]
                 n == CoordLen(s, t, latlon_lengths, {"N", "S"}, {"E", "W"})
             IN  [found |-> TRUE,
                  mant |-> SubSeq(s, r, r + w[1] - 1)
                             \o SubSeq(s, r + w[1] + w[2], r + w[1] + w[2] + w[3] - 1),
                  scale |-> IF w[2] = 1 THEN w[3] ELSE 0,
                  token |-> SubSeq(s, t, t + n - 1)]

\* \d{4,6} and \d{5,7}
polygon_lengths == [lat |-> {4, 5, 6}, lon |-> {5, 6, 7}]

\* Where (?:\d{4,6}[NS]\d{5,7}[EW]\s*)+ under re.IGNORECASE stops, from t on.
RECURSIVE polygon_end(_, _)
polygon_end(s, t) ==
    LET n == CoordLen(s, t, polygon_lengths, {"N", "S", "n", "s"}, {"E", "W", "e", "w"}) IN
    IF n = 0 THEN t
    ELSE polygon_end(s, t + n + RunLen(s, t + n, Spaces))

\* Lines 332-336: group(1) of the leftmost match of the polygon pattern.
polygon_zone(s) ==
    LET start(p) == p + 4 + RunLen(s, p + 4, Spaces)
        hits == {p \in 1..Len(s) :
                    /\ LitAtI(s, p, Chars_ZONA)
                    /\ RunLen(s, p + 4, Spaces) > 0
                    /\ polygon_end(s, start(p)) > start(p)}
        p == FirstOf(hits)
    IN  IF p = 0 THEN [found |-> FALSE, text |-> <<>>]
        ELSE [found |-> TRUE, text |-> SubSeq(s, start(p), polygon_end(s, start(p)) - 1)]

\* re.findall(r'\d{4,6}[NS]\d{5,7}[EW]', text)
RECURSIVE findall_coords(_, _)
findall_coords(s, i) ==
    IF i > Len(s) THEN <<>>
    ELSE LET n == CoordLen(s, i, polygon_lengths, {"N", "S"}, {"E", "W"}) IN
         IF n = 0 THEN findall_coords(s, i + 1)
         ELSE <<SubSeq(s, i, i + n - 1)>> \o findall_coords(s, i + n)

\* Lines 339-344: the coordinate strings of the matched text.
coord_strings(text) ==
    IF \E i \in 1..Len(rstrip(text)) : text[i] \in Spaces
    THEN split_whitespace(rstrip(text))
    ELSE findall_coords(rstrip(text), 1)

\* Lines 346-350: the strings that decode, decoded, in their order.
RECURSIVE decoded_coords(_)
decoded_coords(strings) ==
    IF strings = <<>> THEN <<>>
    ELSE LET ll == parse_latlon(PyStr(Head(strings))) IN
         (IF ll.lat.some /\ ll.lon.some THEN <<[lat |-> ll.lat.v, lon |-> ll.lon.v]>>
          ELSE <<>>)
         \o decoded_coords(Tail(strings))

\* Line 361: group(1) of the leftmost match of the designator pattern.
name_zone(s) ==
    LET ends(p) ==
            LET a == p + 5 + RunLen(s, p + 5, Spaces)
                b == a + RunLen(s, a, Letters)
                c == b + RunLen(s, b, Spaces)
                d == c + RunLen(s, c, Digits)
                e == d + RunLen(s, d, Letters)
                f == e + RunLen(s, e, Spaces)
            IN  IF /\ LitAtI(s, p, <<"/">> \o Chars_ZONA)
                   /\ a > p + 5 /\ b > a /\ d > c
                   /\ LitAt(s, f, <<"/">>)
                THEN <<a, e>> ELSE <<0, 0>>
        hits == {p \in 1..Len(s) : ends(p)[1] > 0}
        p == FirstOf(hits)
    IN  IF p = 0 THEN [found |-> FALSE, name |-> <<>>]
        ELSE [found |-> TRUE, name |-> SubSeq(s, ends(p)[1], ends(p)[2] - 1)]

\* float() of the radius: mant / 10^scale.
Radius(mant, scale) == [mant |-> int(mant), scale |-> scale]

\* The coordinate list tried before the circle.
parse_zone_polygon_first(shr_t) ==
    IF ~isinstance_str(shr_t) THEN UnknownZone
    ELSE
    LET s == shr_t.val
        rz == round_zone(s)
        pz == polygon_zone(s)
        coords == IF pz.found THEN decoded_coords(coord_strings(pz.text)) ELSE <<>>
        nz == name_zone(s)
    IN  IF coords # <<>>
        THEN [UnknownZone EXCEPT !.type = "polygon", !.coordinates = coords]
        ELSE IF rz.found
        THEN LET ll == parse_latlon(PyStr(rz.token)) IN
             [UnknownZone EXCEPT !.type = "circle",
                                 !.center = [lat |-> ll.lat, lon |-> ll.lon],
                                 !.radius = Radius(rz.mant, rz.scale)]
        ELSE IF nz.found
        THEN [UnknownZone EXCEPT !.type = "named", !.name = nz.name]
        ELSE UnknownZone

parse_zone(shr_t) ==
    IF ~isinstance_str(shr_t) THEN UnknownZone
    ELSE
    LET s == shr_t.val
        rz == round_zone(s)
        pz == polygon_zone(s)
        coords == IF pz.found THEN decoded_coords(coord_strings(pz.text)) ELSE <<>>
        nz == name_zone(s)
    IN  IF rz.found
        THEN LET ll == parse_latlon(PyStr(rz.token)) IN
             [UnknownZone EXCEPT !.type = "circle",
                                 !.center = [lat |-> ll.lat, lon |-> ll.lon],
                                 !.radius = Radius(rz.mant, rz.scale)]
        ELSE IF coords # <<>>
        THEN [UnknownZone EXCEPT !.type = "polygon", !.coordinates = coords]
        ELSE IF nz.found
        THEN LET known == {i \in DOMAIN zones : zones[i].rvmname = nz.name} IN
             [UnknownZone EXCEPT !.type = "named", !.name = nz.name,
                                 !.zones = IF known = {} THEN <<>>
                                           ELSE zones[FirstOf(known)].zones]
        ELSE UnknownZone

(***************************************************************************)
(* parsers/flight_parser.py: FlightParser.get_flight_region and            *)
(* _search_region_in_vicinity.  The region locator is a list of regions,   *)
(* each the open rectangle of its points, no two overlapping.              *)
(***************************************************************************)
NoLocator == [present |-> FALSE, regions |-> <<>>]

\* No region: parse_row writes the sentinel name ("not determined", in
\* Russian) for it.
NoRegion == [some |-> FALSE, cartodb_id |-> 0, region |-> "Ne opredeleno"]

\* region_locator.get_region(lat, lon): the region whose geometry contains
\* the point, or None.
get_region(locator, lat, lon) ==
    LET hits == {i \in DOMAIN locator.regions :
                    /\ locator.regions[i].lat_min < lat /\ lat < locator.regions[i].lat_max
                    /\ locator.regions[i].lon_min < lon /\ lon < locator.regions[i].lon_max}
    IN  IF hits = {} THEN NoRegion
        ELSE [some |-> TRUE,
              cartodb_id |-> locator.regions[FirstOf(hits)].cartodb_id,
              region |-> locator.regions[FirstOf(hits)].region]

\* bool(x) of an Optional[float]: None and 0.0 are false.
\* "x is not None"
is_not_none(x) == x.some

truthy_float(x) == x.some /\ x.v # 0

\* Calls of get_region for the points in their order, up to the first that
\* finds a region: the points asked and the region found.
probe(locator, points) ==
    LET hits == {i \in DOMAIN points : get_region(locator, points[i][1], points[i][2]).some}
        h == FirstOf(hits)
    IN  IF h = 0 THEN [calls |-> points, region |-> NoRegion]
        ELSE [calls |-> SubSeq(points, 1, h),
              region |-> get_region(locator, points[h][1], points[h][2])]

directions ==
    << <<1, 1>>, <<1, -1>>, <<-1, 1>>, <<-1, -1>>,
       <<1, 0>>, <<-1, 0>>, <<0, 1>>, <<0, -1>> >>

\* The radii of line 155, in 1e-6 degree.
deltas == <<10000, 50000, 100000, 150000, 200000, 250000, 500000,
            1000000, 2000000, 3000000, 5000000>>

\* Lines 139-146: the base point of the search, if any.
search_anchor(dep_lat, dep_lon, arr_lat, arr_lon) ==
    IF truthy_float(dep_lat) /\ truthy_float(dep_lon) THEN <<<<dep_lat.v, dep_lon.v>>>>
    ELSE IF truthy_float(arr_lat) /\ truthy_float(arr_lon) THEN <<<<arr_lat.v, arr_lon.v>>>>
    ELSE <<>>

\* Lines 155-158: the points probed around an anchor, in the order of the
\* two loops.
search_points(anchor) ==
    [k \in 1..(Len(deltas) * Len(directions)) |->
        LET delta == deltas[((k - 1) \div Len(directions)) + 1]
            dir == directions[((k - 1) % Len(directions)) + 1]
        IN  <<anchor[1] + dir[1] * delta, anchor[2] + dir[2] * delta>>]

_search_region_in_vicinity(locator, dep_lat, dep_lon, arr_lat, arr_lon) ==
    LET anchor == search_anchor(dep_lat, dep_lon, arr_lat, arr_lon) IN
    IF ~locator.present \/ anchor = <<>> THEN [calls |-> <<>>, region |-> NoRegion]
    ELSE probe(locator, search_points(anchor[1]))

\* Lines 98-113: the point asked for one geometry of a named zone, if any.
named_zone_points(z) ==
    IF z.type = "circle" THEN
        IF Len(z.center) = 2 THEN <<z.center>> ELSE <<>>
    ELSE IF z.type = "polygon" THEN
        IF z.coordinates # <<>> /\ Len(z.coordinates[1]) = 2
        THEN <<z.coordinates[1]>> ELSE <<>>
    ELSE <<>>

RECURSIVE Flatten(_)
Flatten(seqs) == IF seqs = <<>> THEN <<>> ELSE Head(seqs) \o Flatten(Tail(seqs))

\* Lines 72-113: the points of the zone asked in their order.
zone_points(zone) ==
    IF zone.type = "polygon"
    THEN [i \in DOMAIN zone.coordinates |->
            <<zone.coordinates[i].lat, zone.coordinates[i].lon>>]
    ELSE IF zone.type = "circle"
    THEN IF zone.center.lat.some /\ zone.center.lon.some
         THEN <<<<zone.center.lat.v, zone.center.lon.v>>>> ELSE <<>>
    ELSE IF zone.type = "named"
    THEN Flatten([i \in DOMAIN zone.zones |-> named_zone_points(zone.zones[i])])
    ELSE <<>>

\* Lines 64-68: "if dep_lat and dep_lon".
endpoint_points(lat, lon) ==
    IF truthy_float(lat) /\ truthy_float(lon) THEN <<<<lat.v, lon.v>>>> ELSE <<>>

\* The region found and the get_region calls made, in their order.
get_flight_region(locator, dep, arr, zone) ==
    IF ~locator.present THEN [calls |-> <<>>, region |-> NoRegion]
    ELSE
    LET p1 == probe(locator, endpoint_points(dep.lat, dep.lon))
        p2 == IF p1.region.some THEN [calls |-> <<>>, region |-> p1.region]
              ELSE probe(locator, endpoint_points(arr.lat, arr.lon))
        p3 == IF p2.region.some THEN [calls |-> <<>>, region |-> p2.region]
              ELSE probe(locator, zone_points(zone))
        p4 == IF p3.region.some THEN [calls |-> <<>>, region |-> p3.region]
              ELSE _search_region_in_vicinity(locator, dep.lat, dep.lon, arr.lat, arr.lon)
    IN  [calls |-> p1.calls \o p2.calls \o p3.calls \o p4.calls, region |-> p4.region]

(***************************************************************************)
(* FlightParser.parse_date_yymmdd, parse_time_hhmm                         *)
(***************************************************************************)
NoDate == [some |-> FALSE, year |-> 0, month |-> 0, day |-> 0]

NoTime == [some |-> FALSE, hh |-> 0, mm |-> 0]

\* An Optional[int].
NoneI == [some |-> FALSE, v |-> 0]

SomeI(x) == [some |-> TRUE, v |-> x]

IsLeap(y) == y % 4 = 0 /\ (y % 100 # 0 \/ y % 400 = 0)

DaysInMonth(y, m) ==
    IF m \in {4, 6, 9, 11} THEN 30
    ELSE IF m = 2 THEN (IF IsLeap(y) THEN 29 ELSE 28)
    ELSE 31

RECURSIVE DaysBeforeMonth(_, _)
DaysBeforeMonth(y, m) ==
    IF m = 1 THEN 0 ELSE DaysBeforeMonth(y, m - 1) + DaysInMonth(y, m - 1)

\* date.toordinal(): the days from 0001-01-01, which is day 1.
toordinal(d) ==
    LET y == d.year - 1
    IN  y * 365 + y \div 4 - y \div 100 + y \div 400 + DaysBeforeMonth(d.year, d.month) + d.day

\* str(s).strip() for a value get() returned; the str() of a list is
\* "['...', '...']", which holds a bracket whatever the items are.
str_strip(v) == IF v.tag = "list" THEN <<"[", "]">> ELSE strip(v.val)

\* datetime(year, month, day) raises no ValueError.
valid_date(year, month, day) ==
    /\ 1 <= month /\ month <= 12
    /\ 1 <= day /\ day <= DaysInMonth(year, month)

parse_date_yymmdd(v) ==
    IF ~truthy(v) THEN NoDate
    ELSE LET s == str_strip(v) IN
         IF ~(Len(s) = 6 /\ AllDigits(s, 1, 6)) THEN NoDate
         ELSE LET yy == int(slice(s, 0, 2))
                  mm == int(slice(s, 2, 4))
                  dd == int(slice(s, 4, 6))
              IN  IF valid_date(2000 + yy, mm, dd)
                  THEN [some |-> TRUE, year |-> 2000 + yy, month |-> mm, day |-> dd]
                  ELSE NoDate

parse_time_hhmm(v) ==
    IF v = PyNone THEN NoTime
    ELSE LET s == str_strip(v) IN
         IF ~(Len(s) = 4 /\ AllDigits(s, 1, 4)) THEN NoTime
         ELSE LET hh == int(slice(s, 0, 2))
                  mm == int(slice(s, 2, 4))
              IN  IF hh > 23 \/ mm > 59 THEN NoTime
                  ELSE [some |-> TRUE, hh |-> hh, mm |-> mm]

(***************************************************************************)
(* FlightParser.parse_row: dates, times, timestamps and duration           *)
(***************************************************************************)
\* A datetime as the minutes from 0001-01-01T00:00 (no seconds occur).
datetime(d, t) == (toordinal(d) - 1) * 1440 + t.hh * 60 + t.mm

\* Lines 410-414 without the correction.
end_timestamp_unshifted(start_ts, arr_date, arr_hm) ==
    IF arr_date.some /\ arr_hm.some THEN SomeI(datetime(arr_date, arr_hm)) ELSE NoneI

\* Lines 410-414: end_ts, a day later when it is before start_ts.
end_timestamp(start_ts, arr_date, arr_hm) ==
    IF arr_date.some /\ arr_hm.some
    THEN LET end_ts == datetime(arr_date, arr_hm)
         IN  IF start_ts.some /\ end_ts < start_ts.v THEN SomeI(end_ts + 1440)
             ELSE SomeI(end_ts)
    ELSE NoneI

\* self.aerodromes: the directory of aerodromes, code, title and coords.
aerodromes ==
    << [code |-> <<"U", "U", "E", "E">>, lat |-> 55972778, lon |-> 37414722],
       [code |-> <<"U", "L", "L", "I">>, lat |-> 59800278, lon |-> 30262500] >>

Chars_ZZZZ == <<"Z", "Z", "Z", "Z">>

\* What lookup_aerodrome(code) returns for a string.
lookup_aerodrome(code) ==
    LET hits == {i \in DOMAIN aerodromes : aerodromes[i].code = upper(strip(code))} IN
    IF code = <<>> \/ code = Chars_ZZZZ \/ hits = {}
    THEN [found |-> FALSE, code |-> <<>>, lat |-> NoneF, lon |-> NoneF]
    ELSE [found |-> TRUE, code |-> upper(strip(code)),
          lat |-> SomeF(aerodromes[FirstOf(hits)].lat),
          lon |-> SomeF(aerodromes[FirstOf(hits)].lon)]

\* Lines 493 and 502: the aerodrome of ADEP or ADARR.  A key given twice is
\* a list, of which lookup_aerodrome takes strip(): AttributeError.
aerodrome_of(code) ==
    IF ~truthy(code) \/ code = PyStr(Chars_ZZZZ)
    THEN [raise |-> FALSE, found |-> FALSE, code |-> <<>>, lat |-> NoneF, lon |-> NoneF]
    ELSE IF code.tag = "list"
    THEN [raise |-> TRUE, found |-> FALSE, code |-> <<>>, lat |-> NoneF, lon |-> NoneF]
    ELSE LET a == lookup_aerodrome(code.val)
         IN  [raise |-> FALSE, found |-> a.found, code |-> a.code, lat |-> a.lat, lon |-> a.lon]

\* [NSСЮсю] and [EWВЗвз]
LatLettersRu == {"N", "S", "cyr_ES", "cyr_YU", "cyr_es", "cyr_yu"}

LonLettersRu == {"E", "W", "cyr_VE", "cyr_ZE", "cyr_ve", "cyr_ze"}

\* Lines 421-439: the coordinate in the value of ADEPZ or ADARRZ, <<>> for
\* none.  A key given twice is a list, of which re.search raises TypeError.
block_coord(value) ==
    IF ~truthy(value) THEN [raise |-> FALSE, token |-> <<>>]
    ELSE IF value.tag = "list" THEN [raise |-> TRUE, token |-> <<>>]
    ELSE [raise |-> FALSE,
          token |-> search_coord(value.val, <<>>, LatLettersRu, LonLettersRu)]

Chars_DEP == <<"D", "E", "P", "/">>

Chars_DEST == <<"D", "E", "S", "T", "/">>

\* "ВЗЛЕТ И ПОСАДКА" (takeoff and landing), the Cyrillic letters by name.
Chars_VZLET_I_POSADKA ==
    <<"cyr_VE", "cyr_ZE", "cyr_EL", "cyr_IE", "cyr_TE", " ", "cyr_I", " ",
      "cyr_PE", "cyr_O", "cyr_ES", "cyr_A", "cyr_DE", "cyr_KA", "cyr_A">>

\* Lines 461-465: the coordinate after the words and \s+, <<>> for none.
proizvol(s) ==
    LET n == Len(Chars_VZLET_I_POSADKA)
        at(p) == p + n + RunLen(s, p + n, Spaces)
        hits == {p \in 1..Len(s) :
                    /\ LitAt(s, p, Chars_VZLET_I_POSADKA)
                    /\ RunLen(s, p + n, Spaces) > 0
                    /\ CoordLen(s, at(p), latlon_lengths, {"N", "S"}, {"E", "W"}) > 0}
        p == FirstOf(hits)
    IN  IF p = 0 THEN <<>>
        ELSE SubSeq(s, at(p),
                    at(p) + CoordLen(s, at(p), latlon_lengths, {"N", "S"}, {"E", "W"}) - 1)

\* Lines 442-467: adepz and adarrz after the search of the SHR text, which
\* is made only when the blocks gave neither.
shr_coords(s, adepz, adarrz) ==
    IF adepz # <<>> \/ adarrz # <<>> THEN <<adepz, adarrz>>
    ELSE LET dep_match == search_coord(s, Chars_DEP, {"N", "S"}, {"E", "W"})
             arr_match == search_coord(s, Chars_DEST, {"N", "S"}, {"E", "W"})
         IN  IF (dep_match = <<>> \/ arr_match = <<>>) /\ proizvol(s) # <<>>
             THEN <<proizvol(s), proizvol(s)>>
             ELSE <<dep_match, arr_match>>

\* Lines 473-488: the pairs <<adepz, adarrz>> after the zone fallback; no
\* pair where abs() of a centre that is None raises TypeError.
zone_coords(zona, adepz, adarrz) ==
    IF adepz # <<>> /\ adarrz # <<>> THEN {<<adepz, adarrz>>}
    ELSE IF zona.type \in {"circle", "polygon"}
    THEN IF adepz # <<>> THEN {<<adepz, adepz>>}
         ELSE IF zona.type = "circle" /\ ~(zona.center.lat.some /\ zona.center.lon.some)
         THEN {}
         ELSE LET lat == IF zona.type = "circle" THEN zona.center.lat.v
                         ELSE zona.coordinates[1].lat
                  lon == IF zona.type = "circle" THEN zona.center.lon.v
                         ELSE zona.coordinates[1].lon
              IN  {<<t, IF adarrz = <<>> THEN t ELSE adarrz>> : t \in zone_tokens(lat, lon)}
    ELSE {<<adepz, adarrz>>}

\* a or b
py_or(a, b) == IF truthy(a) THEN a ELSE b

\* The Cyrillic letters the texts here use, all between U+0410 and U+044F.
CyrillicLetters ==
    Range(CyrLower) \cup Range(CyrUpper)
    \cup {"cyr_EL", "cyr_i", "cyr_te", "cyr_TE", "cyr_IE", "cyr_I", "cyr_PE",
          "cyr_O", "cyr_A", "cyr_DE", "cyr_KA", "cyr_EN", "cyr_ER"}

\* The class of the pattern of line 305.  Its third range starts at the
\* Latin A and takes in everything from U+0041 to U+042F, the underscore
\* among the characters used here.
operator_class ==
    Letters \cup CyrillicLetters \cup Range(AsciiDigits)
    \cup {"|", "\n", " ", "+", "-", "_"}

\* \w
word_class == Letters \cup CyrillicLetters \cup Digits \cup {"_"}

\* The indices of the blank that can start group 2 of the pattern of line
\* 305, for a match that starts at p.
operator_blanks(s, p) ==
    {k \in (p + 5)..Len(s) :
        /\ s[k] = " "
        /\ \A j \in (p + 4)..(k - 1) : s[j] \in operator_class
        /\ \E e \in (k + 2)..Len(s) :
              /\ s[e] = "/"
              /\ \A j \in (k + 1)..(e - 1) : s[j] \in word_class}

LastOf(S) == CHOOSE p \in S : \A q \in S : q <= p

\* Lines 304-309: group 1 of the leftmost match, taken greedily, with its
\* line feeds replaced by blanks.
parse_operator(shr_t) ==
    Value({IF p = 0 THEN PyNone
           ELSE Value({PyStr([i \in 1..(k - p - 4) |->
                                IF shr_t[p + 3 + i] = "\n" THEN " "
                                ELSE shr_t[p + 3 + i]]) :
                       k \in {LastOf(operator_blanks(shr_t, p))}}) :
           p \in {FirstOf({q \in 1..Len(shr_t) :
                             /\ LitAt(shr_t, q, <<"O", "P", "R", "/">>)
                             /\ operator_blanks(shr_t, q) # {}})}})

NoFlight ==
    [status |-> "pending",
     dep |-> [date |-> NoDate, time_hhmm |-> NoTime, lat |-> NoneF, lon |-> NoneF,
              aerodrome_code |-> <<>>],
     arr |-> [date |-> NoDate, time_hhmm |-> NoTime, lat |-> NoneF, lon |-> NoneF,
              aerodrome_code |-> <<>>],
     start_ts |-> NoneI, end_ts |-> NoneI, duration_min |-> NoneI,
     zone |-> UnknownZone, region_id |-> NoneI, region_name |-> NoRegion.region,
     sid |-> PyNone, uav_type |-> PyNone, operator |-> PyNone]

\* An exception left parse_row.
RaisedFlight == [NoFlight EXCEPT !.status = "raised"]

\* Lines 494-508: lat, lon and aerodrome code of one side.
side_point(aerodrome, token) ==
    IF aerodrome.found
    THEN [lat |-> aerodrome.lat, lon |-> aerodrome.lon, code |-> aerodrome.code]
    ELSE IF token # <<>>
    THEN [lat |-> parse_latlon(PyStr(token)).lat, lon |-> parse_latlon(PyStr(token)).lon,
          code |-> <<>>]
    ELSE [lat |-> NoneF, lon |-> NoneF, code |-> <<>>]

\* The records parse_row can return (one, but for a zone coordinate halfway
\* between two hundredths of a degree), or RaisedFlight.  center_name and
\* the aerodrome names are left out of the record.  The blocks, the zone
\* and the coordinates found are bound as x \in {e}.
parse_row(locator, shr_t, dep_t, arr_t) ==
    UNION {
    LET dep_date == parse_date_yymmdd(get(dep, <<"A", "D", "D">>))
        arr_date == parse_date_yymmdd(get(arr, <<"A", "D", "A">>))
        dep_hm == parse_time_hhmm(get(dep, <<"A", "T", "D">>))
        arr_hm == parse_time_hhmm(get(arr, <<"A", "T", "A">>))
        start_ts == IF dep_date.some /\ dep_hm.some
                    THEN SomeI(datetime(dep_date, dep_hm)) ELSE NoneI
        end_ts == end_timestamp(start_ts, arr_date, arr_hm)
        adarrz == block_coord(get(arr, <<"A", "D", "A", "R", "R", "Z">>))
        adepz == block_coord(get(dep, <<"A", "D", "E", "P", "Z">>))
        dep_aerodrome == aerodrome_of(get(dep, <<"A", "D", "E", "P">>))
        arr_aerodrome == aerodrome_of(get(arr, <<"A", "D", "A", "R", "R">>))
    IN  IF \/ ~isinstance_str(shr_t)
           \/ adarrz.raise \/ adepz.raise \/ dep_aerodrome.raise \/ arr_aerodrome.raise
        THEN {RaisedFlight}
        ELSE
        UNION {
        LET pairs == zone_coords(zona, found[1], found[2]) IN
        IF pairs = {} THEN {RaisedFlight}
        ELSE
        { [status |-> "returned",
           dep |-> [date |-> dep_date, time_hhmm |-> dep_hm,
                    lat |-> d.lat, lon |-> d.lon, aerodrome_code |-> d.code],
           arr |-> [date |-> arr_date, time_hhmm |-> arr_hm,
                    lat |-> a.lat, lon |-> a.lon, aerodrome_code |-> a.code],
           start_ts |-> start_ts,
           end_ts |-> end_ts,
           duration_min |-> IF start_ts.some /\ end_ts.some
                            THEN SomeI(end_ts.v - start_ts.v) ELSE NoneI,
           zone |-> zona,
           region_id |-> IF region.some THEN SomeI(region.cartodb_id) ELSE NoneI,
           region_name |-> region.region,
           sid |-> py_or(py_or(get(dep, <<"S", "I", "D">>), get(arr, <<"S", "I", "D">>)),
                         get(shr, <<"S", "I", "D">>)),
           uav_type |-> py_or(py_or(get(shr, <<"T", "Y", "P">>), get(dep, <<"T", "Y", "P">>)),
                              get(arr, <<"T", "Y", "P">>)),
           operator |-> operator] :
            <<d, a, region>> \in
               { <<side_point(dep_aerodrome, pair[1]), side_point(arr_aerodrome, pair[2]),
                   get_flight_region(locator, side_point(dep_aerodrome, pair[1]),
                                     side_point(arr_aerodrome, pair[2]), zona).region>> :
                   pair \in pairs } } :
            found \in {shr_coords(shr_t.val, adepz.token, adarrz.token)},
            zona \in {parse_zone(shr_t)},
            operator \in {IF parse_operator(shr_t.val) = PyNone
                          THEN get(shr, <<"O", "P", "R">>)
                          ELSE parse_operator(shr_t.val)} } :
        dep \in {parse_block(dep_t)}, arr \in {parse_block(arr_t)},
        shr \in {parse_block(shr_t)} }

(***************************************************************************)
(* parsers/telegram_parser.py: TelegramParser, the SHR message of a row    *)
(***************************************************************************)
Chars_DOF == <<"D", "O", "F", "/">>

\* re.search(lit + r'(\d{n})', s).group(1), <<>> without a match.
search_digits(s, lit, n) ==
    LET p == FirstOf({i \in 1..Len(s) :
                        LitAt(s, i, lit) /\ RunLen(s, i + Len(lit), Digits) >= n})
    IN  IF p = 0 THEN <<>> ELSE SubSeq(s, p + Len(lit), p + Len(lit) + n - 1)

\* An Optional[str] is its characters, <<>> for None: no string built below
\* is empty.  YYMMDD becomes 20YY-MM-DD.
_extract_date(message) ==
    LET date_str == search_digits(message, Chars_DOF, 6)
    IN  IF date_str = <<>> THEN <<>>
        ELSE <<"2", "0">> \o SubSeq(date_str, 1, 2) \o <<"-">> \o SubSeq(date_str, 3, 4)
                 \o <<"-">> \o SubSeq(date_str, 5, 6)

\* HHMM becomes HH:MM.
_extract_departure_time(message) ==
    LET time_str == search_digits(message, Chars_ZZZZ, 4)
    IN  IF time_str = <<>> THEN <<>>
        ELSE SubSeq(time_str, 1, 2) \o <<":">> \o SubSeq(time_str, 3, 4)

NonZeroDigits == {"1", "2", "3", "4", "5", "6", "7", "8", "9"}

\* datetime.strptime(date_str, "%Y-%m-%d") of a string dddd-dd-dd raises no
\* ValueError: %m is 1[0-2]|0[1-9]|[1-9] and %d is 3[01]|[12]\d|0[1-9]|[1-9],
\* a one-digit alternative leaves a character unconverted, and the date must
\* exist.
strptime_date_ok(date_str) ==
    LET m == SubSeq(date_str, 6, 7)
        d == SubSeq(date_str, 9, 10)
    IN  /\ \/ m[1] = "1" /\ m[2] \in {"0", "1", "2"}
           \/ m[1] = "0" /\ m[2] \in NonZeroDigits
        /\ \/ d[1] = "3" /\ d[2] \in {"0", "1"}
           \/ d[1] \in {"1", "2"} /\ IsDigit(d[2])
           \/ d[1] = "0" /\ d[2] \in NonZeroDigits
        /\ valid_date(int(SubSeq(date_str, 1, 4)), int(m), int(d))

\* datetime.strptime(time_str, "%H:%M") of a string dd:dd or dddd raises no
\* ValueError: %H is 2[0-3]|[0-1]\d|\d and %M is [0-5]\d|\d, and the colon
\* must stand between them, so four digits in a row never do.
strptime_time_ok(time_str) ==
    /\ Len(time_str) = 5
    /\ time_str[3] = ":"
    /\ \/ time_str[1] = "2" /\ time_str[2] \in {"0", "1", "2", "3"}
       \/ time_str[1] \in {"0", "1"}
    /\ time_str[4] \in {"0", "1", "2", "3", "4", "5"}

\* The datetime as its two strings; the ValueError is raised again.
_combine_date_time(date_str, time_str) ==
    IF strptime_date_ok(date_str) /\ strptime_time_ok(time_str)
    THEN [raised |-> FALSE, date |-> date_str, time |-> time_str]
    ELSE [raised |-> TRUE, date |-> <<>>, time |-> <<>>]

\* An Optional[str] whose string can be empty.
NoneStr == [some |-> FALSE, val |-> <<>>]

SomeStr(s) == [some |-> TRUE, val |-> s]

\* The characters of s at the indices of keep, in order.
Kept(s, keep) ==
    [j \in 1..Cardinality(keep) |->
        s[CHOOSE i \in keep : Cardinality({k \in keep : k <= i}) = j]]

\* re.sub(r'\s+', ' ', s)
collapse_spaces(s) ==
    Kept([i \in DOMAIN s |-> IF IsSpace(s[i]) THEN " " ELSE s[i]],
         {i \in DOMAIN s : ~IsSpace(s[i]) \/ i = 1 \/ ~IsSpace(s[i - 1])})

\* re.sub(r'\s+\+?\d{10,}.*$', '', s) of a string whose blanks are single.
cut_phone(s) ==
    Value({IF p = 0 THEN s ELSE SubSeq(s, 1, p - 1) :
           p \in {FirstOf({i \in DOMAIN s :
                             /\ IsSpace(s[i])
                             /\ \/ RunLen(s, i + 1, Digits) >= 10
                                \/ /\ i < Len(s) /\ s[i + 1] = "+"
                                   /\ RunLen(s, i + 2, Digits) >= 10})}})

\* re.sub(r'\s+[A-Z0-9\-]{6,}$', '', s) of a string whose blanks are single.
cut_code(s) ==
    Value({IF p = 0 THEN s ELSE SubSeq(s, 1, p - 1) :
           p \in {FirstOf({i \in DOMAIN s :
                             /\ IsSpace(s[i])
                             /\ Len(s) - i >= 6
                             /\ \A j \in (i + 1)..Len(s) :
                                   s[j] \in Range(UpperLetters) \cup Range(AsciiDigits)
                                            \cup {"-"}})}})

\* re.sub(r'\d+$', '', s)
cut_digits(s) ==
    SubSeq(s, 1, FirstOf({i \in 0..Len(s) : \A j \in (i + 1)..Len(s) : IsDigit(s[j])}))

\* The markers that end the name in the first pattern.
OperatorMarkers ==
    {<<"R", "E", "G", "/">>, <<"T", "Y", "P", "/">>, <<"R", "M", "K", "/">>,
     <<"S", "I", "D", "/">>}

\* (?:\s+REG/|\s+TYP/|\s+RMK/|\s+SID/|$) at index j.
marker_at(s, j) ==
    \/ j = Len(s) + 1
    \/ /\ RunLen(s, j, Spaces) >= 1
       /\ \E lit \in OperatorMarkers : LitAt(s, j + RunLen(s, j, Spaces), lit)

\* Lines 236-264, "pilcrow" being the PILCROW SIGN the workbooks use for a
\* line break.  The message with its line breaks replaced holds none, so
\* the first pattern matches wherever the second or the third would: group 1
\* is the shortest text after the leftmost 'OPR/' that a marker or the end
\* follows.
_extract_operator(message) ==
    LET clean_message ==
            [i \in DOMAIN message |->
                IF message[i] \in {"\n", "\r", "pilcrow"} THEN " " ELSE message[i]]
        p == FirstOf({i \in DOMAIN clean_message :
                        /\ LitAt(clean_message, i, <<"O", "P", "R", "/">>)
                        /\ i + 4 <= Len(clean_message)})
    IN  IF p = 0 THEN NoneStr
        ELSE Value({
                SomeStr(strip(cut_digits(cut_code(cut_phone(collapse_spaces(
                    strip(SubSeq(clean_message, p + 4, k)))))))) :
                k \in {FirstOf({i \in (p + 4)..Len(clean_message) :
                                  marker_at(clean_message, i + 1)})}})

\* An Optional[Tuple[float, float]] in units of 1e-6 degree.
NoCoords == [some |-> FALSE, lat |-> 0, lon |-> 0]

\* Lines 193-224: degrees plus minutes / 60 plus seconds / 3600 of each
\* half, negated for S and W, to the nearest 1e-6 degree.  The string is a
\* match of the pattern tried before, so coord_pattern matches it and no
\* length raises.
_parse_coordinates(coord_str) ==
    Value({
        [some |-> TRUE,
         lat |-> (IF coord_str[a + 1] = "S" THEN -1 ELSE 1)
                 * degrees(int(SubSeq(coord_str, 1, 2)), int(SubSeq(coord_str, 3, 4)),
                           IF a = 6 THEN int(SubSeq(coord_str, 5, 6)) ELSE 0),
         lon |-> (IF coord_str[Len(coord_str)] = "W" THEN -1 ELSE 1)
                 * degrees(int(SubSeq(coord_str, a + 2, a + 4)),
                           int(SubSeq(coord_str, a + 5, a + 6)),
                           IF Len(coord_str) - a - 2 = 7
                           THEN int(SubSeq(coord_str, a + 7, a + 8)) ELSE 0)] :
        a \in {RunLen(coord_str, 1, Digits)}})

\* Lines 152-159, coord_type with its slash.
_extract_coordinates(message, coord_type) ==
    Value({IF coord_str = <<>> THEN NoCoords ELSE _parse_coordinates(coord_str) :
           coord_str \in {search_coord(message, coord_type, {"N", "S"}, {"E", "W"})}})

\* The class [\d\s\-\(\)] of the phone pattern.
phone_class == Digits \cup Spaces \cup {"-", "(", ")"}

\* The first index at or after i that is not in the class.
class_run_end(s, i) ==
    FirstOf({j \in i..(Len(s) + 1) : j = Len(s) + 1 \/ s[j] \notin phone_class})

\* r'\+?[78][\d\s\-\(\)]{10,}' tried at index i: the index after the match,
\* or 0.  The class is matched greedily and nothing follows it.
phone_match_end(s, i) ==
    Value({IF d <= Len(s) /\ s[d] \in {"7", "8"}
           THEN Value({IF e - (d + 1) >= 10 THEN e ELSE 0 : e \in {class_run_end(s, d + 1)}})
           ELSE 0 :
           d \in {IF s[i] = "+" THEN i + 1 ELSE i}})

\* re.findall of the phone pattern: leftmost matches that do not overlap.
RECURSIVE findall_phones(_, _)
findall_phones(s, i) ==
    Value({IF p = 0 THEN <<>>
           ELSE Value({<<PyStr(SubSeq(s, p, e - 1))>> \o findall_phones(s, e) :
                       e \in {phone_match_end(s, p)}}) :
           p \in {FirstOf({q \in i..Len(s) : phone_match_end(s, q) # 0})}})

NoDatetime == [raised |-> FALSE, date |-> <<>>, time |-> <<>>]

\* The coordinate, date, time and phone keys of the result; phone_numbers
\* is <<>> when the key is absent.
parse_shr_message(message) ==
    LET flight_date == _extract_date(message)
        normalized_phones ==
            normalize_phone_numbers([none |-> FALSE, items |-> findall_phones(message, 1)])
        departure_time == _extract_departure_time(message)
        departure_datetime ==
            IF flight_date # <<>> /\ departure_time # <<>>
            THEN _combine_date_time(flight_date, departure_time)
            ELSE NoDatetime
    IN  IF departure_datetime.raised
        THEN [error |-> TRUE, parsed |-> FALSE, flight_date |-> <<>>,
              departure_time |-> <<>>, departure_datetime |-> NoDatetime,
              phone_numbers |-> <<>>,
              departure_coords |-> NoCoords, destination_coords |-> NoCoords]
        ELSE [error |-> FALSE, parsed |-> TRUE, flight_date |-> flight_date,
              departure_time |-> departure_time, departure_datetime |-> departure_datetime,
              phone_numbers |-> normalized_phones,
              departure_coords |-> _extract_coordinates(message, Chars_DEP),
              destination_coords |-> _extract_coordinates(message, Chars_DEST)]

\* The date, the time and the except branch are those of parse_shr_message.
parse_shr_message_2025(message) == parse_shr_message(message)

\* The result before any message is parsed: {}.
EmptyResult ==
    [error |-> FALSE, parsed |-> FALSE, flight_date |-> <<>>,
     departure_time |-> <<>>, departure_datetime |-> NoDatetime,
     phone_numbers |-> <<>>,
     departure_coords |-> NoCoords, destination_coords |-> NoCoords]

\* The date, time and datetime keys of the result of parse_dep_message; the
\* coordinates it also extracts cannot raise.
parse_dep_message(message) ==
    LET flight_date == _extract_date(message)
        departure_time == _extract_departure_time(message)
        departure_datetime ==
            IF flight_date # <<>> /\ departure_time # <<>>
            THEN _combine_date_time(flight_date, departure_time)
            ELSE NoDatetime
    IN  IF departure_datetime.raised
        THEN [error |-> TRUE, flight_date |-> <<>>, departure_time |-> <<>>,
              departure_datetime |-> NoDatetime]
        ELSE [error |-> FALSE, flight_date |-> flight_date,
              departure_time |-> departure_time, departure_datetime |-> departure_datetime]

\* The number of characters not of the set from position i on.
RECURSIVE RunLenNot(_, _, _)
RunLenNot(s, i, set) ==
    IF i <= Len(s) /\ s[i] \notin set THEN 1 + RunLenNot(s, i + 1, set) ELSE 0

Chars_ARR_ == <<"A", "R", "R", "-">>

Chars__ZZZZ == <<"-", "Z", "Z", "Z", "Z">>

\* The position after 'ARR-[^-]+-[^-]+-[^-]+-ZZZZ' matched at p, where four
\* digits follow, or 0.  Each [^-]+ is the whole run up to the next '-'.
arr_time_at(s, p) ==
    IF ~LitAt(s, p, Chars_ARR_) THEN 0
    ELSE Value({
        IF a = 0 \/ ~LitAt(s, p + 4 + a, <<"-">>) THEN 0
        ELSE Value({
            IF b = 0 \/ ~LitAt(s, p + 5 + a + b, <<"-">>) THEN 0
            ELSE Value({
                IF c = 0 \/ ~LitAt(s, p + 6 + a + b + c, Chars__ZZZZ) THEN 0
                ELSE IF RunLen(s, p + 11 + a + b + c, Digits) < 4 THEN 0
                ELSE p + 11 + a + b + c :
                c \in {RunLenNot(s, p + 6 + a + b, {"-"})} }) :
            b \in {RunLenNot(s, p + 5 + a, {"-"})} }) :
        a \in {RunLenNot(s, p + 4, {"-"})} })

\* arr_time_match.group(1): the four digits, <<>> without a match.
arr_time(s) ==
    Value({ IF p = 0 THEN <<>> ELSE SubSeq(s, arr_time_at(s, p), arr_time_at(s, p) + 3) :
            p \in {FirstOf({i \in 1..Len(s) : arr_time_at(s, i) # 0})} })

\* The date, time and datetime keys of the result of parse_arr_message.
\* arrival_time is the four digits as they stand, without a colon.
parse_arr_message(message) ==
    LET flight_date == _extract_date(message)
        arrival_time == arr_time(message)
        arrival_datetime ==
            IF flight_date # <<>> /\ arrival_time # <<>>
            THEN _combine_date_time(flight_date, arrival_time)
            ELSE NoDatetime
    IN  IF arrival_datetime.raised
        THEN [error |-> TRUE, flight_date |-> <<>>, arrival_time |-> <<>>,
              arrival_datetime |-> NoDatetime]
        ELSE [error |-> FALSE, flight_date |-> flight_date,
              arrival_time |-> arrival_time, arrival_datetime |-> arrival_datetime]

\* A datetime of _combine_date_time as minutes.
minutes_of(dt) ==
    datetime([year |-> int(SubSeq(dt.date, 1, 4)), month |-> int(SubSeq(dt.date, 6, 7)),
              day |-> int(SubSeq(dt.date, 9, 10))],
             [hh |-> int(SubSeq(dt.time, 1, 2)), mm |-> int(SubSeq(dt.time, 4, 5))])

\* A day is added once when the arrival is before the departure.
calculate_duration(departure_dt, arrival_dt) ==
    LET duration == minutes_of(arrival_dt) - minutes_of(departure_dt)
    IN  IF duration < 0 THEN duration + 1440 ELSE duration

\* if msg and isinstance(msg, str) and msg.strip().
has_text(msg) == msg # <<>> /\ strip(msg) # <<>>

\* The keys of the combined result that depend on dates and times; a
\* datetime key that is absent is NoDatetime, duration_minutes None.
parse_flight_messages(shr_msg, dep_msg, arr_msg) ==
    Value({
        [error |-> result.error, parsed |-> result.parsed,
         flight_date |-> result.flight_date, departure_time |-> result.departure_time,
         departure_datetime |-> result.departure_datetime,
         actual_departure_datetime |-> dep_data.departure_datetime,
         arrival_datetime |-> arr_data.arrival_datetime,
         duration_minutes |->
             IF result.departure_datetime.date # <<>> /\ arr_data.arrival_datetime.date # <<>>
             THEN SomeI(calculate_duration(result.departure_datetime,
                                           arr_data.arrival_datetime))
             ELSE NoneI,
         raw_shr_message |-> shr_msg] :
        result \in {IF has_text(shr_msg) THEN parse_shr_message(shr_msg) ELSE EmptyResult},
        dep_data \in {IF has_text(dep_msg) THEN parse_dep_message(dep_msg)
                      ELSE [error |-> FALSE, flight_date |-> <<>>, departure_time |-> <<>>,
                            departure_datetime |-> NoDatetime]},
        arr_data \in {IF has_text(arr_msg) THEN parse_arr_message(arr_msg)
                      ELSE [error |-> FALSE, flight_date |-> <<>>, arrival_time |-> <<>>,
                            arrival_datetime |-> NoDatetime]} })

\* re.search(lit + r'\s+(\d{n})', s).group(1), <<>> without a match.
search_spaced_digits(s, lit, n) ==
    LET starts == {i \in 1..Len(s) :
                     /\ LitAt(s, i, lit)
                     /\ RunLen(s, i + Len(lit), Spaces) >= 1
                     /\ RunLen(s, i + Len(lit) + RunLen(s, i + Len(lit), Spaces), Digits) >= n}
        p == FirstOf(starts)
    IN  IF p = 0 THEN <<>>
        ELSE Value({SubSeq(s, q, q + n - 1) :
                    q \in {p + Len(lit) + RunLen(s, p + Len(lit), Spaces)}})

\* re.search of lit, \s+ and a coordinate: the coordinate of the leftmost
\* match decoded, or None.
search_spaced_coord(s, lit) ==
    LET after(i) == i + Len(lit) + RunLen(s, i + Len(lit), Spaces)
        starts == {i \in 1..Len(s) :
                     /\ LitAt(s, i, lit)
                     /\ RunLen(s, i + Len(lit), Spaces) >= 1
                     /\ CoordLen(s, after(i), latlon_lengths, {"N", "S"}, {"E", "W"}) > 0}
        p == FirstOf(starts)
    IN  IF p = 0 THEN NoCoords
        ELSE Value({_parse_coordinates(
                        SubSeq(s, q, q + CoordLen(s, q, latlon_lengths,
                                                  {"N", "S"}, {"E", "W"}) - 1)) :
                    q \in {after(p)}})

_extract_adepz_coordinates(message) ==
    search_spaced_coord(message, <<"A", "D", "E", "P", "Z">>)

_extract_adarrz_coordinates(message) ==
    search_spaced_coord(message, <<"A", "D", "A", "R", "R", "Z">>)

\* The first of the three patterns that matches, as HH:MM.
first_time(first, second, third) ==
    LET time_str == IF first # <<>> THEN first ELSE IF second # <<>> THEN second ELSE third
    IN  IF time_str = <<>> THEN <<>>
        ELSE SubSeq(time_str, 1, 2) \o <<":">> \o SubSeq(time_str, 3, 4)

\* The time, date, coordinate and datetime keys of the result.
parse_dep_message_2025(message) ==
    LET departure_time ==
            first_time(search_spaced_digits(message, <<"-", "A", "T", "D">>, 4),
                       search_digits(message, <<"-">> \o Chars_ZZZZ, 4),
                       search_spaced_digits(message, <<"A", "T", "D">>, 4))
        flight_date == _extract_date(message)
        departure_datetime ==
            IF flight_date # <<>> /\ departure_time # <<>>
            THEN _combine_date_time(flight_date, departure_time)
            ELSE NoDatetime
    IN  IF departure_datetime.raised
        THEN [error |-> TRUE, flight_date |-> <<>>, departure_time |-> <<>>,
              departure_coords |-> NoCoords, departure_datetime |-> NoDatetime]
        ELSE [error |-> FALSE, flight_date |-> flight_date,
              departure_time |-> departure_time,
              departure_coords |-> _extract_adepz_coordinates(message),
              departure_datetime |-> departure_datetime]

parse_arr_message_2025(message) ==
    LET arrival_time ==
            first_time(search_spaced_digits(message, <<"-", "A", "T", "A">>, 4),
                       search_spaced_digits(message, <<"A", "T", "A">>, 4),
                       search_digits(message, <<"-">> \o Chars_ZZZZ, 4))
        flight_date == _extract_date(message)
        arrival_datetime ==
            IF flight_date # <<>> /\ arrival_time # <<>>
            THEN _combine_date_time(flight_date, arrival_time)
            ELSE NoDatetime
    IN  IF arrival_datetime.raised
        THEN [error |-> TRUE, flight_date |-> <<>>, arrival_time |-> <<>>,
              destination_coords |-> NoCoords, arrival_datetime |-> NoDatetime]
        ELSE [error |-> FALSE, flight_date |-> flight_date,
              arrival_time |-> arrival_time,
              destination_coords |-> _extract_adarrz_coordinates(message),
              arrival_datetime |-> arrival_datetime]

\* Lines 352-390: the keys of the SHR result, and of the DEP and ARR
\* results the two times and the two datetimes.
parse_flight_messages_2025(shr_msg, dep_msg, arr_msg) ==
    Value({
        [error |-> result.error, parsed |-> result.parsed,
         flight_date |-> result.flight_date, departure_time |-> result.departure_time,
         departure_datetime |-> result.departure_datetime,
         departure_coords |-> result.departure_coords,
         destination_coords |-> result.destination_coords,
         actual_departure_datetime |-> dep_data.departure_datetime,
         actual_departure_time |-> dep_data.departure_time,
         arrival_datetime |-> arr_data.arrival_datetime,
         arrival_time |-> arr_data.arrival_time,
         duration_minutes |->
             Value({IF departure_dt.date # <<>> /\ arr_data.arrival_datetime.date # <<>>
                    THEN SomeI(calculate_duration(departure_dt, arr_data.arrival_datetime))
                    ELSE NoneI :
                    departure_dt \in {IF dep_data.departure_datetime.date # <<>>
                                      THEN dep_data.departure_datetime
                                      ELSE result.departure_datetime}}),
         raw_shr_message |-> shr_msg] :
        result \in {IF has_text(shr_msg) THEN parse_shr_message_2025(shr_msg)
                    ELSE EmptyResult},
        dep_data \in {IF has_text(dep_msg) THEN parse_dep_message_2025(dep_msg)
                      ELSE [error |-> FALSE, flight_date |-> <<>>, departure_time |-> <<>>,
                            departure_coords |-> NoCoords,
                            departure_datetime |-> NoDatetime]},
        arr_data \in {IF has_text(arr_msg) THEN parse_arr_message_2025(arr_msg)
                      ELSE [error |-> FALSE, flight_date |-> <<>>, arrival_time |-> <<>>,
                            destination_coords |-> NoCoords,
                            arrival_datetime |-> NoDatetime]} })

(***************************************************************************)
(* parsers/data_processor.py: DataProcessor                                *)
(***************************************************************************)
\* A column header: a str by its name, or the int a numeric header is read
\* as.  "Centr ES OrVD" is the Cyrillic header of the centre column.
Header(name) == [tag |-> "str", name |-> name]

IntHeader == [tag |-> "int", name |-> "2024"]

CentreColumn == "Centr ES OrVD"

\* col.upper() of the header names used here.
upper_name(name) ==
    CASE name = "shr" -> "SHR"
      [] name = "dep" -> "DEP"
      [] name = CentreColumn -> "CENTR ES ORVD"
      [] OTHER -> name

\* The word 'centr' (in Cyrillic) is in col.lower().
lower_has_centre(name) == name = CentreColumn

\* columns = [col.upper() for col in df.columns] raises AttributeError on an
\* int header.
_is_shr_dep_arr_format(columns) ==
    IF \E k \in 1..Len(columns) : columns[k].tag # "str" THEN "raise"
    ELSE LET names == {upper_name(columns[k].name) : k \in 1..Len(columns)}
         IN  IF "SHR" \in names /\ ("DEP" \in names \/ "ARR" \in names) THEN "yes" ELSE "no"

\* No header here holds the Cyrillic 'reys' or 'bort'; col.lower() raises on
\* an int header, which _is_shr_dep_arr_format met first.
_is_detailed_format(columns) == "no"

_is_aggregated_format(columns) ==
    IF \E k \in 1..Len(columns) : lower_has_centre(columns[k].name) THEN "yes" ELSE "no"

_is_2025_format(columns) ==
    /\ Len(columns) = 4
    /\ \A name \in {CentreColumn, "SHR", "DEP", "ARR"} : Header(name) \in Range(columns)

\* row.get(key, ''): the cell, '' when the sheet has no such column.
row_get(columns, row, key) ==
    IF Header(key) \in Range(columns) THEN row[key] ELSE PyStr(<<>>)

\* s.replace(old, new), from position i on.
RECURSIVE replace_from(_, _, _, _)
replace_from(s, i, old, new) ==
    IF i > Len(s) THEN <<>>
    ELSE IF LitAt(s, i, old) THEN new \o replace_from(s, i + Len(old), old, new)
    ELSE <<s[i]>> \o replace_from(s, i + 1, old, new)

replace(s, old, new) == Value({replace_from(t, 1, old, new) : t \in {s}})

Chars_x000D == <<"_", "x", "0", "0", "0", "D", "_">>

\* PyNone is the NaN of an empty cell.
_clean_message(message) ==
    IF message.tag = "None" THEN <<>>
    ELSE Value({replace(replace(stripped, Chars_x000D, <<"\n">>), <<"\\", "n">>, <<"\n">>) :
                   stripped \in {strip(message.val)}})

\* str(cell): 'nan' for an empty cell.
str_cell(cell) == IF cell.tag = "None" THEN <<"n", "a", "n">> ELSE cell.val

\* The flight a parsed row becomes.  No message here holds coordinates, so
\* _enrich_with_region_data finds nothing to look up and adds no key.
Flight(flight_data, region_name, source_sheet, center_name) ==
    [raw_shr_message |-> flight_data.raw_shr_message,
     parsed |-> flight_data.parsed,
     flight_date |-> flight_data.flight_date,
     departure_time |-> flight_data.departure_time,
     departure_datetime |-> flight_data.departure_datetime,
     region_name |-> region_name,
     source_sheet |-> source_sheet,
     center_name |-> center_name]

\* The flights of the rows from index idx on (iterrows counts from 0).
RECURSIVE _process_shr_dep_arr_format_from(_, _, _)
_process_shr_dep_arr_format_from(df, region_name, idx) ==
    IF idx >= Len(df.rows) THEN <<>>
    ELSE LET row == df.rows[idx + 1]
             rest == _process_shr_dep_arr_format_from(df, region_name, idx + 1)
         IN  Value({
                 IF shr_msg = <<>> THEN rest
                 ELSE Value({
                     IF ~flight_data.error
                     THEN <<Flight(flight_data, region_name, region_name, PyNone)>> \o rest
                     ELSE rest :
                     flight_data \in {parse_flight_messages(shr_msg, dep_msg, arr_msg)} }) :
                 shr_msg \in {_clean_message(row_get(df.columns, row, "SHR"))},
                 dep_msg \in {_clean_message(row_get(df.columns, row, "DEP"))},
                 arr_msg \in {_clean_message(row_get(df.columns, row, "ARR"))} })

_process_shr_dep_arr_format(df, region_name) ==
    _process_shr_dep_arr_format_from(df, region_name, 0)

Chars_Aggregated == <<"A", "g", "g", "r", "e", "g", "a", "t", "e", "d">>

RECURSIVE _process_aggregated_format_from(_, _, _)
_process_aggregated_format_from(df, region_name, idx) ==
    IF idx >= Len(df.rows) THEN <<>>
    ELSE LET row == df.rows[idx + 1]
             center_name == str_cell(row_get(df.columns, row, CentreColumn))
             rest == _process_aggregated_format_from(df, region_name, idx + 1)
         IN  Value({
                 IF shr_msg = <<>> THEN rest
                 ELSE Value({
                     IF ~flight_data.error
                     THEN <<Flight(flight_data, PyStr(center_name), PyStr(Chars_Aggregated),
                                   PyNone)>> \o rest
                     ELSE rest :
                     flight_data \in {parse_flight_messages(shr_msg, dep_msg, arr_msg)} }) :
                 shr_msg \in {_clean_message(row_get(df.columns, row, "SHR"))},
                 dep_msg \in {_clean_message(row_get(df.columns, row, "DEP"))},
                 arr_msg \in {_clean_message(row_get(df.columns, row, "ARR"))} })

_process_aggregated_format(df, region_name) ==
    _process_aggregated_format_from(df, region_name, 0)

\* The loop were it to end at the first row that fails to parse.
RECURSIVE _process_2025_format_aborting(_, _, _)
_process_2025_format_aborting(df, sheet_name, idx) ==
    IF idx >= Len(df.rows) THEN <<>>
    ELSE LET row == df.rows[idx + 1]
             center_name == strip(str_cell(row_get(df.columns, row, CentreColumn)))
             rest == _process_2025_format_aborting(df, sheet_name, idx + 1)
         IN  Value({
                 IF shr_msg = <<>> \/ center_name = <<>> THEN rest
                 ELSE Value({
                     IF ~flight_data.error
                     THEN <<Flight(flight_data, PyStr(center_name), PyStr(sheet_name),
                                   PyStr(center_name))>> \o rest
                     ELSE <<>> :
                     flight_data \in {parse_flight_messages_2025(shr_msg, dep_msg, arr_msg)} }) :
                 shr_msg \in {_clean_message(row_get(df.columns, row, "SHR"))},
                 dep_msg \in {_clean_message(row_get(df.columns, row, "DEP"))},
                 arr_msg \in {_clean_message(row_get(df.columns, row, "ARR"))} })

RECURSIVE _process_2025_format_from(_, _, _)
_process_2025_format_from(df, sheet_name, idx) ==
    IF idx >= Len(df.rows) THEN <<>>
    ELSE LET row == df.rows[idx + 1]
             center_name == strip(str_cell(row_get(df.columns, row, CentreColumn)))
             rest == _process_2025_format_from(df, sheet_name, idx + 1)
         IN  Value({
                 IF shr_msg = <<>> \/ center_name = <<>> THEN rest
                 ELSE Value({
                     IF ~flight_data.error
                     THEN <<Flight(flight_data, PyStr(center_name), PyStr(sheet_name),
                                   PyStr(center_name))>> \o rest
                     ELSE rest :
                     flight_data \in {parse_flight_messages_2025(shr_msg, dep_msg, arr_msg)} }) :
                 shr_msg \in {_clean_message(row_get(df.columns, row, "SHR"))},
                 dep_msg \in {_clean_message(row_get(df.columns, row, "DEP"))},
                 arr_msg \in {_clean_message(row_get(df.columns, row, "ARR"))} })

_process_2025_format(df, sheet_name) == _process_2025_format_from(df, sheet_name, 0)

\* RegionLocator(geojson_path): open() raises FileNotFoundError on a missing
\* file, json.load JSONDecodeError on a file that is not JSON, and
\* data["features"] KeyError on a JSON object without that key.
_load_regions(file) ==
    IF file.kind # "ok" THEN [raised |-> TRUE, locator |-> NoLocator]
    ELSE [raised |-> FALSE, locator |-> [present |-> TRUE, regions |-> file.regions]]

\* DataProcessor(): an exception of RegionLocator is logged and
\* region_locator set to None; the constructor itself does not raise.
DataProcessor_init(file) ==
    [constructed |-> TRUE, raised |-> FALSE,
     region_locator |-> IF _load_regions(file).raised THEN NoLocator
                        ELSE _load_regions(file).locator]

\* No region key added to flight_data.
NotEnriched == [of |-> "none", region |-> NoRegion]

\* bool(coords) of an Optional[tuple]: a pair is true whatever it holds.
truthy_pair(p) == p.lat.some

\* coords_to_check: the departure, then the arrival or else the destination.
coords_to_check(flight_data) ==
    (IF truthy_pair(flight_data.departure_coords)
     THEN <<[of |-> "departure", coords |-> flight_data.departure_coords]>> ELSE <<>>)
    \o (IF truthy_pair(flight_data.arrival_coords)
        THEN <<[of |-> "arrival", coords |-> flight_data.arrival_coords]>>
        ELSE IF truthy_pair(flight_data.destination_coords)
        THEN <<[of |-> "destination", coords |-> flight_data.destination_coords]>>
        ELSE <<>>)

\* The keys the first coordinates with a region add: whose coordinates they
\* are, and the region.
RECURSIVE enrich_from(_, _, _)
enrich_from(locator, checks, k) ==
    IF k > Len(checks) THEN NotEnriched
    ELSE Value({
             IF region_info.some THEN [of |-> checks[k].of, region |-> region_info]
             ELSE enrich_from(locator, checks, k + 1) :
             region_info \in {get_region(locator, checks[k].coords.lat.v,
                                         checks[k].coords.lon.v)} })

_enrich_with_region_data(locator, flight_data) ==
    IF ~locator.present THEN NotEnriched
    ELSE enrich_from(locator, coords_to_check(flight_data), 1)

Chars_Result_1 == <<"R", "e", "s", "u", "l", "t", "_", "1">>

\* The sheet the loop of process_excel_file passes over.
Chars_List1 == <<"cyr_EL", "cyr_i", "cyr_es", "cyr_te", "1">>

\* self.region_mapping.get(sheet_name, sheet_name): of the keys of the
\* mapping the sheets here bear only 'Result_1', which maps to None.
region_mapping_get(sheet_name) ==
    IF sheet_name = Chars_Result_1 THEN PyNone ELSE PyStr(sheet_name)

\* The flights of a sheet, or the exception of a format test.
_process_sheet(df, sheet_name) ==
    LET region_name == region_mapping_get(sheet_name)
    IN  IF _is_2025_format(df.columns)
        THEN [raised |-> FALSE, flights |-> _process_2025_format(df, sheet_name)]
        ELSE IF _is_shr_dep_arr_format(df.columns) = "raise"
        THEN [raised |-> TRUE, flights |-> <<>>]
        ELSE IF _is_shr_dep_arr_format(df.columns) = "yes"
        THEN [raised |-> FALSE, flights |-> _process_shr_dep_arr_format(df, region_name)]
        ELSE IF _is_detailed_format(df.columns) = "yes"
        THEN [raised |-> FALSE, flights |-> <<>>]
        ELSE IF _is_aggregated_format(df.columns) = "yes"
        THEN [raised |-> FALSE, flights |-> _process_aggregated_format(df, region_name)]
        ELSE [raised |-> FALSE, flights |-> <<>>]

\* An entry of 'errors' is a message: its fixed text, the sheet it names
\* (<<>> for the message about the file) and the row index it names, which
\* neither message does.
SheetError(sheet_name) ==
    [text |-> "Error processing sheet", sheet_name |-> sheet_name, row |-> NoneI]

FileError == [text |-> "Failed to process file", sheet_name |-> <<>>, row |-> NoneI]

\* The loop over the sheets from position k on.
RECURSIVE process_sheets(_, _)
process_sheets(sheets, k) ==
    IF k > Len(sheets) THEN [flights |-> <<>>, errors |-> <<>>, sheets_processed |-> 0]
    ELSE LET sheet == sheets[k]
         IN  Value({
                 IF sheet.sheet_name = Chars_List1 THEN rest
                 ELSE Value({
                     IF done.raised
                     THEN [rest EXCEPT !.errors = <<SheetError(sheet.sheet_name)>> \o @]
                     ELSE [rest EXCEPT !.flights = done.flights \o @,
                                       !.sheets_processed = @ + 1] :
                     done \in {_process_sheet(sheet, sheet.sheet_name)} }) :
                 rest \in {process_sheets(sheets, k + 1)} })

\* pd.ExcelFile raises on a file it cannot read.
process_excel_file(file) ==
    IF ~file.readable
    THEN [flights |-> <<>>, errors |-> <<FileError>>, total_processed |-> 0,
          sheets_processed |-> 0]
    ELSE Value({[flights |-> done.flights, errors |-> done.errors,
                 total_processed |-> Len(done.flights),
                 sheets_processed |-> done.sheets_processed] :
                 done \in {process_sheets(file.sheets, 1)} })

(***************************************************************************)
(* Phone inputs                                                            *)
(***************************************************************************)
MaxPhoneDigits == 13

MaxPhones == 2

PhonePattern == <<"9", "9", "1", "2", "3", "4", "5", "6", "7", "8", "9", "0", "1", "2">>

\* n digits: the two leading ones chosen, the rest fixed.
PhoneDigits(first, second, n) ==
    [i \in 1..n |-> IF i = 1 THEN first ELSE IF i = 2 THEN second ELSE PhonePattern[i]]

\* The separator written after the i-th digit in the style "8 (912) 345-67-89".
ParenSep(i) ==
    IF i = 1 THEN <<" ", "(">>
    ELSE IF i = 4 THEN <<")", " ">>
    ELSE IF i \in {7, 9} THEN <<"-">>
    ELSE <<>>

RECURSIVE WithSeps(_, _, _)
WithSeps(d, i, style) ==
    IF i > Len(d) THEN <<>>
    ELSE <<d[i]>>
         \o (IF i = Len(d) THEN <<>>
             ELSE IF style = "paren" THEN ParenSep(i)
             ELSE <<" ">>)
         \o WithSeps(d, i + 1, style)

PhoneStyles == {"plain", "plus", "spaced", "paren", "padded"}

Written(d, style) ==
    IF style = "plain" THEN d
    ELSE IF style = "plus" THEN <<"+">> \o d
    ELSE IF style = "padded" THEN <<" ">> \o d \o <<"\n">>
    ELSE WithSeps(d, 1, style)

\* Inputs of tests/test_phone_normalizer.py the scheme above leaves out.
PhoneTestInputs ==
    {PyStr(NumStr(123456789, 9)),
     PyStr(NumStr(891234, 6) \o NumStr(567890, 6)),
     PyStr(<<"+">> \o NumStr(12345, 5) \o NumStr(67890, 5)),
     PyStr(<<"+", "7", " ">> \o NumStr(800, 3) \o <<" ">> \o NumStr(555, 3)
           \o <<" ">> \o NumStr(35, 2) \o <<" ">> \o NumStr(35, 2))}

PhoneInputs ==
    {PyStr(Written(PhoneDigits(f, s, n), st)) :
        f \in {"7", "8", "1", "9", "u0663"}, s \in {"7", "9", "1"},
        n \in 0..MaxPhoneDigits, st \in PhoneStyles}
    \cup {PyNone, PyInt(0), PyInt(5)}
    \cup PhoneTestInputs

\* A few raw numbers for the lists, as re.findall hands them over.
ListInputs ==
    {PyStr(Written(PhoneDigits(f, "9", n), st)) :
        f \in {"7", "8", "u0663"}, n \in {9, 10, 11}, st \in {"plus"}}
    \cup {PyStr(<<>>), PyStr(<<"i", "n", "v", "a", "l", "i", "d">>)}

PhoneLists ==
    {[none |-> TRUE, items |-> <<>>]}
    \cup {[none |-> FALSE, items |-> l] :
            l \in UNION {[1..n -> ListInputs] : n \in 0..MaxPhones}}

(***************************************************************************)
(* Coordinate inputs                                                       *)
(***************************************************************************)
\* Most whitespace characters written around a token.
MaxPad == 1

\* Degrees, minutes and seconds written as DDMM or DDMMSS (ss < 0: no
\* seconds), with the degrees w digits wide.
DMS(deg, mm, ss, w) ==
    NumStr(deg, w) \o NumStr(mm, 2) \o (IF ss < 0 THEN <<>> ELSE NumStr(ss, 2))

LatGroups ==
    {DMS(deg, mm, ss, 2) : deg \in {0, 55, 68, 89, 90}, mm \in {0, 9, 36, 60},
                           ss \in {-1, 5, 60}}

LonGroups ==
    {DMS(deg, mm, ss, 3) : deg \in {0, 37, 80, 179, 180}, mm \in {0, 6, 37, 60},
                           ss \in {-1, 35, 60}}

\* Tokens of the strict form, in and out of range.
FormedTokens ==
    {lat \o <<ns>> \o lon \o <<ew>> :
        lat \in LatGroups, ns \in {"N", "S"}, lon \in LonGroups, ew \in {"E", "W"}}

\* Digit groups of every length from 3 to 8, and one in digits outside ASCII.
AnyGroups ==
    {SubSeq(NumStr(55, 2) \o NumStr(93736, 5) \o <<"1">>, 1, n) : n \in 3..8}
    \cup {<<"5", "5", "0", "u0663">>, <<"0", "3", "7", "3", "u0661">>}

Pads == UNION {[1..n -> {" ", "\n"}] : n \in 0..MaxPad}

\* Tokens around the strict form: other digit counts, direction letters in
\* lower case, in Cyrillic, wrong or missing, characters before and after.
VariedTokens ==
    {pre \o lat \o ns \o lon \o ew \o post :
        pre \in Pads \cup {<<"A">>}, lat \in {NumStr(5509, 4), NumStr(683605, 6)},
        ns \in {<<"N">>, <<"s">>, <<"cyr_ES">>, <<"cyr_yu">>, <<"E">>, <<>>},
        lon \in {NumStr(3737, 5), NumStr(800635, 7)},
        ew \in {<<"E">>, <<"w">>, <<"cyr_VE">>, <<"cyr_ze">>, <<"N">>, <<>>},
        post \in Pads \cup {<<"/">>, <<"1">>}}
    \cup {lat \o <<"N">> \o lon \o <<"E">> : lat \in AnyGroups, lon \in AnyGroups}

\* 55.125 and 37.125 degrees: half-way between two values of two decimals.
HalfwayTokens == {DMS(55, 7, 30, 2) \o <<ns>> \o DMS(37, 7, 30, 3) \o <<"E">> : ns \in {"N", "S"}}

CoordInputs ==
    {PyStr(t) : t \in FormedTokens \cup VariedTokens \cup HalfwayTokens}
    \cup {PyNone, PyInt(5)}

(***************************************************************************)
(* DEP and ARR message texts                                               *)
(***************************************************************************)
\* A date or time of a message: its digits, or <<>> when the line is left out.
Absent == <<>>

DepDates ==
    {NumStr(d, 6) : d \in {240101, 240102, 240103, 240228, 240229, 240301, 241231, 230229}}
    \cup {Absent}

ArrDates ==
    {NumStr(d, 6) : d \in {231231, 240101, 240102, 240229, 240301, 250101, 240431}}
    \cup {Absent}

DepTimes == {NumStr(t, 4) : t \in {0, 600, 2330, 2359, 2400}} \cup {Absent}

ArrTimes == {NumStr(t, 4) : t \in {0, 15, 1250, 2359, 1260}} \cup {Absent}

Chars_TITLE == <<"T", "I", "T", "L", "E">>

\* "-KEY value", or nothing for a value left out.
DashLine(key, value) == IF value = Absent THEN <<>> ELSE <<<<"-">> \o key \o <<" ">> \o value>>

RECURSIVE Join(_, _)
Join(lines, sep) ==
    IF lines = <<>> THEN <<>>
    ELSE IF Len(lines) = 1 THEN lines[1]
    ELSE lines[1] \o sep \o Join(Tail(lines), sep)

MessageStyles == {"dash", "wrapped", "lower", "slash", "twice"}

\* A DEP or ARR text in one of the ways the messages are written:
\*   dash     -TITLE IDEP / -ADD 240101 / -ATD 0600, one per line
\*   wrapped  the same in parentheses, lines ended by "\r\n"
\*   lower    the keys in lower case, two spaces before the value
\*   slash    ADD/240101 ATD/0600/ on one line
\*   twice    the date line given twice
MessageText(title, dkey, date, tkey, time, style) ==
    LET head == <<<<"-">> \o Chars_TITLE \o <<" ">> \o title>> IN
    IF style = "dash" THEN
        Join(head \o DashLine(dkey, date) \o DashLine(tkey, time), <<"\n">>)
    ELSE IF style = "wrapped" THEN
        <<"(">> \o Join(head \o DashLine(dkey, date) \o DashLine(tkey, time), <<"\r", "\n">>)
          \o <<")">>
    ELSE IF style = "lower" THEN
        Join(head \o << <<"-">> \o [i \in DOMAIN dkey |-> LowerLetters[IndexOf(UpperLetters, dkey[i])]]
                          \o <<" ", " ">> \o date >>
                  \o DashLine(tkey, time), <<"\n">>)
    ELSE IF style = "slash" THEN
        dkey \o <<"/">> \o date \o <<" ">> \o tkey \o <<"/">> \o time \o <<"/">>
    ELSE
        Join(head \o DashLine(dkey, date) \o DashLine(dkey, date) \o DashLine(tkey, time),
             <<"\n">>)

Chars_IDEP == <<"I", "D", "E", "P">>

Chars_IARR == <<"I", "A", "R", "R">>

Chars_ADD == <<"A", "D", "D">>

Chars_ATD == <<"A", "T", "D">>

Chars_ADA == <<"A", "D", "A">>

Chars_ATA == <<"A", "T", "A">>

DepTexts ==
    {PyStr(MessageText(Chars_IDEP, Chars_ADD, d, Chars_ATD, t, "dash")) :
        d \in DepDates, t \in DepTimes}
    \cup {PyStr(MessageText(Chars_IDEP, Chars_ADD, NumStr(240101, 6), Chars_ATD, t, st)) :
            t \in {NumStr(600, 4), NumStr(2330, 4)}, st \in MessageStyles}
    \cup {PyNone, PyStr(<<>>)}

ArrTexts ==
    {PyStr(MessageText(Chars_IARR, Chars_ADA, d, Chars_ATA, t, "dash")) :
        d \in ArrDates, t \in ArrTimes}
    \cup {PyStr(MessageText(Chars_IARR, Chars_ADA, NumStr(240101, 6), Chars_ATA, t, st)) :
            t \in {NumStr(1250, 4), NumStr(15, 4)}, st \in MessageStyles}
    \cup {PyNone, PyStr(<<>>)}

(***************************************************************************)
(* The phone normalizer driven over its inputs: the initial state holds    *)
(* the argument of one call, the action makes the call.                    *)
(***************************************************************************)
NoList == [none |-> TRUE, items |-> <<>>]

Pending == [done |-> FALSE, items |-> <<>>]

PhoneIdle ==
    /\ phone = NotCalled
    /\ phone_result = NotCalled
    /\ phone_list = NoList
    /\ phone_numbers = Pending

CoordIdle ==
    /\ compact = NotCalled
    /\ latlon = NotParsed
    /\ zone_token = <<>>
    /\ zone_latlon = NotParsed

RowIdle ==
    /\ shr_text = NotCalled
    /\ dep_text = NotCalled
    /\ arr_text = NotCalled
    /\ flight = NoFlight

NoBlock == [done |-> FALSE, entries |-> <<>>]

BlockIdle ==
    /\ block_text = NotCalled
    /\ block_result = NoBlock

NoZone == [UnknownZone EXCEPT !.type = "pending"]

ZoneIdle ==
    /\ zone_text = NotCalled
    /\ zone_result = NoZone

NoRegionFlight == [dep |-> NoPoint, arr |-> NoPoint, zone |-> UnknownZone]

NoRegionResult == [op |-> "none", region |-> NoRegion, calls |-> <<>>]

RegionIdle ==
    /\ region_flight = NoRegionFlight
    /\ region_result = NoRegionResult

NoFile == [readable |-> FALSE, sheets |-> <<>>]

NoBatchResult ==
    [done |-> FALSE,
     result |-> [flights |-> <<>>, errors |-> <<>>, total_processed |-> 0,
                 sheets_processed |-> 0]]

BatchIdle ==
    /\ excel_file = NoFile
    /\ batch_result = NoBatchResult

NoGeojson == [kind |-> "missing", regions |-> <<>>]

NoProcessor == [constructed |-> FALSE, raised |-> FALSE, region_locator |-> NoLocator]

NoEnrichFlight ==
    [departure_coords |-> NoPoint, arrival_coords |-> NoPoint, destination_coords |-> NoPoint]

NoEnrichResult == [done |-> FALSE, added |-> NotEnriched]

StartupIdle ==
    /\ geojson = NoGeojson
    /\ processor = NoProcessor
    /\ enrich_flight = NoEnrichFlight
    /\ enrich_result = NoEnrichResult

NoArrData ==
    [done |-> FALSE,
     result |-> [error |-> FALSE, flight_date |-> <<>>, arrival_time |-> <<>>,
                 arrival_datetime |-> NoDatetime]]

NoTgFlight == [done |-> FALSE, result |-> parse_flight_messages(<<>>, <<>>, <<>>)]

TelegramIdle ==
    /\ tg_shr = <<>>
    /\ tg_dep = <<>>
    /\ tg_arr = <<>>
    /\ tg_arr_data = NoArrData
    /\ tg_flight = NoTgFlight

NoShrData == [done |-> FALSE, result |-> EmptyResult]

NoOperator == [done |-> FALSE, result |-> NoneStr]

ShrIdle ==
    /\ shr_message = <<>>
    /\ shr_data = NoShrData
    /\ shr_operator = NoOperator

\* Every component but the one driven is as it was constructed.
IdleBut(component) ==
    /\ component = "phone" \/ PhoneIdle
    /\ component = "coord" \/ CoordIdle
    /\ component = "row" \/ RowIdle
    /\ component = "block" \/ BlockIdle
    /\ component = "zone" \/ ZoneIdle
    /\ component = "batch" \/ BatchIdle
    /\ component = "startup" \/ StartupIdle
    /\ component = "telegram" \/ TelegramIdle
    /\ component = "shr" \/ ShrIdle
    /\ component = "region" \/ RegionIdle
    /\ component \in {"row", "region"} \/ region_locator = NoLocator

InitPhone ==
    /\ \/ /\ phone \in PhoneInputs
          /\ phone_list = NoList
       \/ /\ phone = NotCalled
          /\ phone_list \in PhoneLists \ {NoList}
    /\ phone_result = NotCalled
    /\ phone_numbers = Pending
    /\ IdleBut("phone")

CallNormalizePhoneNumber ==
    /\ phone # NotCalled
    /\ phone_result' = normalize_phone_number(phone)
    /\ UNCHANGED <<phone, phone_list, phone_numbers, not_phone>>

CallNormalizePhoneNumbers ==
    /\ phone = NotCalled
    /\ phone_numbers' = [done |-> TRUE, items |-> normalize_phone_numbers(phone_list)]
    /\ UNCHANGED <<phone, phone_result, phone_list, not_phone>>

NextPhone == CallNormalizePhoneNumber \/ CallNormalizePhoneNumbers

SpecPhone == InitPhone /\ [][NextPhone]_vars

(***************************************************************************)
(* The coordinate decoder driven over its inputs, and the zone fallback of *)
(* parse_row applied to what it decoded.                                   *)
(***************************************************************************)
InitLatlon ==
    /\ compact \in CoordInputs
    /\ latlon = NotParsed
    /\ zone_token = <<>>
    /\ zone_latlon = NotParsed
    /\ IdleBut("coord")

CallParseLatlon ==
    /\ latlon = NotParsed
    /\ latlon' = parse_latlon(compact)
    /\ UNCHANGED <<compact, zone_token, zone_latlon, not_coord>>

\* parse_row with no other source of coordinates and a zone whose centre
\* (or first vertex) is the decoded coordinate: lines 473-488 write the
\* token, line 498 decodes it.
ZoneFallback ==
    /\ latlon.status = "returned"
    /\ latlon.lat.some /\ latlon.lon.some
    /\ zone_latlon = NotParsed
    /\ \E t \in zone_tokens(latlon.lat.v, latlon.lon.v) :
          /\ zone_token' = t
          /\ zone_latlon' = parse_latlon(PyStr(t))
    /\ UNCHANGED <<compact, latlon, not_coord>>

NextLatlon == CallParseLatlon \/ ZoneFallback

SpecLatlon == InitLatlon /\ [][NextLatlon]_vars

(***************************************************************************)
(* parse_row driven over DEP and ARR texts                                 *)
(***************************************************************************)
InitRow ==
    /\ region_locator = NoLocator
    /\ shr_text = PyStr(<<>>)
    /\ dep_text \in DepTexts
    /\ arr_text \in ArrTexts
    /\ flight = NoFlight
    /\ IdleBut("row")

CallParseRow ==
    /\ flight = NoFlight
    /\ flight' \in parse_row(region_locator, shr_text, dep_text, arr_text)
    /\ UNCHANGED <<shr_text, dep_text, arr_text, not_row>>

NextRow == CallParseRow

SpecRow == InitRow /\ [][NextRow]_vars

(***************************************************************************)
(* parse_block driven over texts of -KEY value lines and KEY/value tokens  *)
(***************************************************************************)
MaxLines == 2

\* Lines of a block: "-KEY value" in upper and lower case, with and without
\* a "/" after the value, KEY/value tokens, a dash with no key, a word, an
\* empty line.
BlockLines ==
    {<<"-", "T", "Y", "P", " ", "B", "L", "A">>,
     <<"-", "t", "y", "p", " ", "B", "L", "A", "/">>,
     <<"-", "A", "D", "E", "P", "Z", " ", "5", "5", "0", "9", "N", "/">>,
     <<"D", "E", "P", "/", "5", "5", "0", "9", "N">>,
     <<"d", "e", "p", "/", "A", "B", "/", " ", "O", "P", "R", "/", "X", "/", "/">>,
     <<"-", "/", "A", "/", "B", "/">>,
     <<"Z", "Z", "Z", "Z">>,
     <<"-", " ", "X", "/", "Y", "/">>,
     <<"-", "S", "I", "D", " ", "7", "7", "/", "/">>,
     <<>>,
     <<" ", "-", "T", "Y", "P", " ", " ", "B", "L", "A", "/", " ">>,
     <<"T", "Y", "P", "/", " ", "/">>}

BlockLineSeqs == UNION {[1..n -> BlockLines] : n \in 1..MaxLines}

BlockTexts ==
    {PyStr(Join(ls, sep)) : ls \in BlockLineSeqs, sep \in {<<"\n">>, <<"\r", "\n">>}}
    \cup {PyStr(<<"(">> \o Join(ls, <<"\n">>) \o <<")">>) : ls \in BlockLineSeqs}
    \cup {PyNone, PyStr(<<>>), PyStr(<<" ">>), PyInt(7)}

InitBlock ==
    /\ block_text \in BlockTexts
    /\ block_result = NoBlock
    /\ IdleBut("block")

CallParseBlock ==
    /\ ~block_result.done
    /\ block_result' = [done |-> TRUE, entries |-> parse_block(block_text)]
    /\ UNCHANGED <<block_text, not_block>>

NextBlock == CallParseBlock

SpecBlock == InitBlock /\ [][NextBlock]_vars

(***************************************************************************)
(* parse_zone driven over SHR texts                                        *)
(***************************************************************************)
MaxFragments == 2

\* Pieces of an SHR text: circles (with and without comma and space, with
\* an undecodable centre, with a one-digit radius), coordinate lists (of one
\* to four tokens, in lower case, undecodable, run together), designators
\* (known and unknown to the directory), and text with no zone.
ZoneFragments ==
    {<<"/", "Z", "O", "N", "A", " ", "R", "0", ",", "7", " ", "5", "5", "0", "9", "N", "0", "3", "7", "3", "7", "E", "/">>,
     <<"/", "Z", "O", "N", "A", " ", "Z", "O", "N", "A", " ", "R", "0", "7", " ", "5", "5", "0", "9", "N", "0", "3", "7", "3", "7", "E", "/">>,
     <<"/", "Z", "O", "N", "A", " ", "R", "0", ",", "7", " ", "9", "9", "9", "9", "N", "0", "3", "7", "3", "7", "E", "/">>,
     <<"/", "Z", "O", "N", "A", " ", "R", "1", "2", "3", "5", "5", "0", "9", "N", "0", "3", "7", "3", "7", "E", "/">>,
     <<"/", "Z", "O", "N", "A", " ", "R", "0", ",", "7", "5", " ", "5", "5", "0", "9", "0", "0", "N", "0", "3", "7", "3", "7", "0", "0", "E", "/">>,
     <<"/", "Z", "O", "N", "A", " ", "R", "5", " ", "5", "5", "0", "9", "N", "0", "3", "7", "3", "7", "E", "/">>,
     <<"Z", "O", "N", "A", " ", "5", "5", "0", "9", "N", "0", "3", "7", "3", "7", "E", " ", "5", "5", "1", "0", "N", "0", "3", "7", "3", "8", "E", " ", "5", "5", "1", "1", "N", "0", "3", "7", "3", "9", "E">>,
     <<"Z", "O", "N", "A", " ", "5", "5", "0", "9", "N", "0", "3", "7", "3", "7", "E">>,
     <<"z", "o", "n", "a", " ", "5", "5", "0", "9", "n", "0", "3", "7", "3", "7", "e", " ", "5", "5", "1", "0", "N", "0", "3", "7", "3", "8", "E">>,
     <<"Z", "O", "N", "A", " ", "9", "9", "9", "9", "N", "0", "3", "7", "3", "7", "E">>,
     <<"Z", "O", "N", "A", " ", "5", "5", "0", "9", "N", "0", "3", "7", "3", "7", "E", " ", "5", "5", "0", "9", "1", "N", "0", "3", "7", "3", "7", "E", " ", "5", "5", "1", "0", "N", "0", "3", "7", "3", "8", "E", " ", "5", "5", "1", "1", "N", "0", "3", "7", "3", "9", "E">>,
     <<"Z", "O", "N", "A", " ", "5", "5", "0", "9", "N", "0", "3", "7", "3", "7", "E", "5", "5", "1", "0", "N", "0", "3", "7", "3", "8", "E">>,
     <<"Z", "O", "N", "A", " ", "5", "5", "0", "9", "n", "0", "3", "7", "3", "7", "e">>,
     <<"/", "Z", "O", "N", "A", " ", "M", "R", "1", "/">>,
     <<"/", "Z", "O", "N", "A", " ", "M", "R", " ", "1", "2", "B", " ", "/">>,
     <<"/", "z", "o", "n", "a", " ", "m", "r", "2", "/">>,
     <<"/", "Z", "O", "N", "A", " ", "M", "R", "2", "/", " ">>,
     <<"T", "Y", "P", "/", "B", "L", "A">>,
     <<>>}

FragmentSeqs == UNION {[1..n -> ZoneFragments] : n \in 1..MaxFragments}

ZoneTexts ==
    {PyStr(Join(fs, <<" ">>)) : fs \in FragmentSeqs} \cup {PyNone}

InitZone ==
    /\ zone_text \in ZoneTexts
    /\ zone_result = NoZone
    /\ IdleBut("zone")

CallParseZone ==
    /\ zone_result = NoZone
    /\ zone_result' = parse_zone(zone_text)
    /\ UNCHANGED <<zone_text, not_zone>>

NextZone == CallParseZone

SpecZone == InitZone /\ [][NextZone]_vars

(***************************************************************************)
(* get_flight_region and _search_region_in_vicinity driven over flights    *)
(* and region locators                                                     *)
(***************************************************************************)
Box(id, name, lat_min, lat_max, lon_min, lon_max) ==
    [cartodb_id |-> id, region |-> name,
     lat_min |-> lat_min * 1000000, lat_max |-> lat_max * 1000000,
     lon_min |-> lon_min * 1000000, lon_max |-> lon_max * 1000000]

\* No locator; one with no region; one with a region around Moscow, one
\* around Saint Petersburg and one on the equator; one whose only region
\* lies two degrees north of Moscow.
Locators ==
    {NoLocator,
     [present |-> TRUE, regions |-> <<>>],
     [present |-> TRUE,
      regions |-> <<Box(1, "A", 54, 56, 36, 39), Box(2, "B", 59, 61, 29, 31),
                    Box(3, "E", -1, 1, 36, 39)>>],
     [present |-> TRUE, regions |-> <<Box(4, "N", 57, 58, 37, 38)>>]}

Point(lat, lon) == [lat |-> SomeF(lat), lon |-> SomeF(lon)]

\* No point, 5509N03737E, 0000N03737E (on the equator), 5509N00000E (on the
\* zero meridian), 6000N03000E and 1000N01000E.
EndPoints ==
    {NoPoint, Point(55150000, 37616667), Point(0, 37616667), Point(55150000, 0),
     Point(60000000, 30000000), Point(10000000, 10000000)}

RegionZones ==
    {UnknownZone,
     [UnknownZone EXCEPT !.type = "circle", !.center = Point(55150000, 37616667),
                         !.radius = [mant |-> 7, scale |-> 1]],
     [UnknownZone EXCEPT !.type = "circle", !.radius = [mant |-> 7, scale |-> 1]],
     [UnknownZone EXCEPT !.type = "polygon",
                         !.coordinates = << [lat |-> 10000000, lon |-> 10000000],
                                            [lat |-> 60000000, lon |-> 30000000],
                                            [lat |-> 55150000, lon |-> 37616667] >>],
     [UnknownZone EXCEPT !.type = "named", !.name = zones[2].rvmname,
                         !.zones = zones[2].zones],
     [UnknownZone EXCEPT !.type = "named", !.name = <<"X", "1">>]}

InitRegion ==
    /\ region_locator \in Locators
    /\ region_flight \in [dep : EndPoints, arr : EndPoints, zone : RegionZones]
    /\ region_result = NoRegionResult
    /\ IdleBut("region")

CallGetFlightRegion ==
    /\ region_result = NoRegionResult
    /\ region_result' =
          LET r == get_flight_region(region_locator, region_flight.dep,
                                     region_flight.arr, region_flight.zone)
          IN  [op |-> "get_flight_region", region |-> r.region, calls |-> r.calls]
    /\ UNCHANGED <<region_locator, region_flight, not_region>>

CallSearchRegionInVicinity ==
    /\ region_result = NoRegionResult
    /\ region_flight.zone = UnknownZone
    /\ region_result' =
          LET r == _search_region_in_vicinity(region_locator,
                        region_flight.dep.lat, region_flight.dep.lon,
                        region_flight.arr.lat, region_flight.arr.lon)
          IN  [op |-> "_search_region_in_vicinity", region |-> r.region, calls |-> r.calls]
    /\ UNCHANGED <<region_locator, region_flight, not_region>>

NextRegion == CallGetFlightRegion \/ CallSearchRegionInVicinity

SpecRegion == InitRegion /\ [][NextRegion]_vars

(***************************************************************************)
(* parse_row driven over the sources of coordinates: aerodrome codes,      *)
(* ADEPZ and ADARRZ, DEP/ and DEST/ of the SHR text, the words "takeoff    *)
(* and landing", and zones                                                 *)
(***************************************************************************)
\* DEP texts: nothing, an aerodrome, ZZZZ and a coordinate, a coordinate, a
\* value with no coordinate, a line given twice, Cyrillic letters, both.
ChainDepTexts ==
    {PyStr(<<"-", "T", "I", "T", "L", "E", " ", "X">>),
     PyStr(<<"-", "A", "D", "E", "P", " ", "U", "U", "E", "E">>),
     PyStr(<<"-", "A", "D", "E", "P", " ", "Z", "Z", "Z", "Z", "\n", "-", "A", "D", "E", "P", "Z", " ", "5", "5", "0", "9", "N", "0", "3", "7", "3", "7", "E">>),
     PyStr(<<"-", "A", "D", "E", "P", "Z", " ", "5", "5", "0", "9", "N", "0", "3", "7", "3", "7", "E">>),
     PyStr(<<"-", "A", "D", "E", "P", "Z", " ", "N", "O", " ", "C", "O", "O", "R", "D">>),
     PyStr(<<"-", "A", "D", "E", "P", "Z", " ", "5", "5", "0", "9", "N", "0", "3", "7", "3", "7", "E", "\n", "-", "A", "D", "E", "P", "Z", " ", "5", "5", "0", "9", "N", "0", "3", "7", "3", "7", "E">>),
     PyStr(<<"-", "A", "D", "E", "P", " ", "U", "U", "E", "E", "\n", "-", "A", "D", "E", "P", " ", "U", "U", "E", "E">>),
     PyStr(<<"-", "A", "D", "E", "P", "Z", " ", "5", "5", "0", "9", "cyr_ES", "0", "3", "7", "3", "7", "cyr_VE">>),
     PyStr(<<"-", "A", "D", "E", "P", " ", "U", "U", "E", "E", "\n", "-", "A", "D", "E", "P", "Z", " ", "5", "5", "0", "9", "N", "0", "3", "7", "3", "7", "E">>),
     PyNone, PyStr(<<>>)}

\* ARR texts, likewise.
ChainArrTexts ==
    {PyStr(<<"-", "T", "I", "T", "L", "E", " ", "X">>),
     PyStr(<<"-", "A", "D", "A", "R", "R", " ", "U", "L", "L", "I">>),
     PyStr(<<"-", "A", "D", "A", "R", "R", " ", "Z", "Z", "Z", "Z", "\n", "-", "A", "D", "A", "R", "R", "Z", " ", "5", "5", "1", "0", "N", "0", "3", "7", "3", "8", "E">>),
     PyStr(<<"-", "A", "D", "A", "R", "R", "Z", " ", "5", "5", "1", "0", "N", "0", "3", "7", "3", "8", "E">>),
     PyStr(<<"-", "A", "D", "A", "R", "R", "Z", " ", "N", "O", " ", "C", "O", "O", "R", "D">>),
     PyStr(<<"-", "A", "D", "A", "R", "R", "Z", " ", "5", "5", "1", "0", "N", "0", "3", "7", "3", "8", "E", "\n", "-", "A", "D", "A", "R", "R", "Z", " ", "5", "5", "1", "0", "N", "0", "3", "7", "3", "8", "E">>),
     PyStr(<<"-", "A", "D", "A", "R", "R", " ", "U", "L", "L", "I", "\n", "-", "A", "D", "A", "R", "R", " ", "U", "L", "L", "I">>),
     PyStr(<<"-", "A", "D", "A", "R", "R", "Z", " ", "5", "5", "1", "0", "cyr_ES", "0", "3", "7", "3", "8", "cyr_VE">>),
     PyStr(<<"-", "A", "D", "A", "R", "R", " ", "U", "L", "L", "I", "\n", "-", "A", "D", "A", "R", "R", "Z", " ", "5", "5", "1", "0", "N", "0", "3", "7", "3", "8", "E">>),
     PyNone, PyStr(<<>>)}

ShrDep == {<<>>, <<<<"D", "E", "P", "/", "5", "6", "0", "1", "N", "0", "3", "8", "0", "1", "E">>>>}

ShrDest == {<<>>, <<<<"D", "E", "S", "T", "/", "5", "6", "0", "2", "N", "0", "3", "8", "0", "2", "E">>>>}

ShrProizvol == {<<>>, <<Chars_VZLET_I_POSADKA \o <<" ", "5", "7", "0", "3", "N", "0", "3", "9", "0", "3", "E">>>>}

\* No zone, a circle, a circle whose centre does not decode, a polygon.
ShrZone ==
    {<<>>, <<<<"/", "Z", "O", "N", "A", " ", "R", "0", ",", "7", " ", "5", "8", "0", "4", "N", "0", "4", "0", "0", "4", "E", "/">>>>,
     <<<<"/", "Z", "O", "N", "A", " ", "R", "0", ",", "7", " ", "9", "9", "9", "9", "N", "0", "3", "7", "3", "7", "E", "/">>>>,
     <<<<"Z", "O", "N", "A", " ", "5", "9", "0", "5", "N", "0", "4", "1", "0", "5", "E", " ", "5", "9", "0", "6", "N", "0", "4", "1", "0", "6", "E", " ", "5", "9", "0", "7", "N", "0", "4", "1", "0", "7", "E">>>>}

ChainShrTexts ==
    {PyStr(Join(<<<<"T", "Y", "P", "/", "B", "L", "A">>>> \o d \o a \o p \o z, <<" ">>)) :
        d \in ShrDep, a \in ShrDest, p \in ShrProizvol, z \in ShrZone}

ChainLocators ==
    {NoLocator,
     [present |-> TRUE,
      regions |-> <<Box(1, "A", 54, 56, 36, 39), Box(2, "B", 59, 61, 29, 31)>>]}

InitChain ==
    /\ region_locator \in ChainLocators
    /\ shr_text \in ChainShrTexts
    /\ dep_text \in ChainDepTexts
    /\ arr_text \in ChainArrTexts
    /\ flight = NoFlight
    /\ IdleBut("row")

SpecChain == InitChain /\ [][NextRow]_vars

(***************************************************************************)
(* parse_row over texts that name SID, TYP and OPR in any of the three     *)
(* blocks                                                                  *)
(***************************************************************************)
\* A "-KEY value" line for each of the three keys given.
IdentLines(sid, typ, opr) ==
    DashLine(<<"S", "I", "D">>, sid) \o DashLine(<<"T", "Y", "P">>, typ)
    \o DashLine(<<"O", "P", "R">>, opr)

IdentDepTexts ==
    {PyStr(Join(<<<<"-">> \o Chars_TITLE \o <<" ">> \o Chars_IDEP>> \o IdentLines(sid, typ, opr)
                \o DashLine(Chars_ADD, NumStr(240101, 6)), <<"\n">>)) :
        sid \in {Absent, NumStr(7772, 4)}, typ \in {Absent, <<"S", "H", "A", "R">>},
        opr \in {Absent, <<"P", "E", "T", "R", "O", "V">>}}

IdentArrTexts ==
    {PyStr(Join(<<<<"-">> \o Chars_TITLE \o <<" ">> \o Chars_IARR>> \o IdentLines(sid, typ, opr)
                \o DashLine(Chars_ADA, NumStr(240101, 6)), <<"\n">>)) :
        sid \in {Absent, NumStr(7773, 4)}, typ \in {Absent, <<"A", "E", "R">>},
        opr \in {Absent, <<"S", "I", "D", "O", "R", "O", "V">>}}

\* "KEY/value ", or nothing.
SlashToken(key, value) == IF value = Absent THEN <<>> ELSE key \o <<"/">> \o value \o <<" ">>

\* '(SHR-ZZZZZ', '-ZZZZ0900', then '-DOF/240101' and the fields
\* 'OPR/... REG/0001 TYP/... RMK/X SID/...)', on the line of the DOF or on
\* a line of their own.
IdentShrTexts ==
    {PyStr(<<"(", "S", "H", "R", "-", "Z", "Z", "Z", "Z", "Z", "\n", "-">> \o Chars_ZZZZ
           \o NumStr(900, 4) \o <<"\n", "-">> \o Chars_DOF \o NumStr(240101, 6) \o br
           \o SlashToken(<<"O", "P", "R">>, opr) \o <<"R", "E", "G", "/">> \o NumStr(1, 4)
           \o <<" ">> \o SlashToken(<<"T", "Y", "P">>, typ) \o SlashToken(<<"S", "I", "D">>, sid)
           \o <<"R", "M", "K", "/", "X", ")">>) :
        br \in {<<" ">>, <<"\n">>}, sid \in {Absent, NumStr(7771, 4)},
        typ \in {Absent, <<"B", "L", "A">>}, opr \in {Absent, <<"I", "V", "A", "N", "O", "V">>}}

InitIdent ==
    /\ region_locator = NoLocator
    /\ shr_text \in IdentShrTexts
    /\ dep_text \in IdentDepTexts
    /\ arr_text \in IdentArrTexts
    /\ flight = NoFlight
    /\ IdleBut("row")

SpecIdent == InitIdent /\ [][NextRow]_vars

(***************************************************************************)
(* TelegramParser.parse_arr_message and parse_flight_messages over         *)
(* triplets of SHR, DEP and ARR messages                                   *)
(***************************************************************************)
\* '(SHR-ZZZZZ', a '-ZZZZhhmm' line and a '-DOF/yymmdd TYP/BLA)' line, the
\* time or the date left out when <<>>.
TgShr(time, date) ==
    <<"(", "S", "H", "R", "-", "Z", "Z", "Z", "Z", "Z">>
        \o (IF time = <<>> THEN <<>> ELSE <<"\n", "-", "Z", "Z", "Z", "Z">> \o time)
        \o <<"\n", "-">>
        \o (IF date = <<>> THEN <<>> ELSE Chars_DOF \o date \o <<" ">>)
        \o <<"T", "Y", "P", "/", "B", "L", "A", ")">>

\* '(DEP-ZZZZZ-ZZZZhhmm-ZZZZ' and a '-REG/07C4935 DOF/yymmdd)' line.
TgDep(time, date) ==
    <<"(", "D", "E", "P", "-", "Z", "Z", "Z", "Z", "Z", "-", "Z", "Z", "Z", "Z">> \o time \o <<"-", "Z", "Z", "Z", "Z", "\n", "-", "R", "E", "G", "/", "0", "7", "C", "4", "9", "3", "5", " ", "D", "O", "F", "/">> \o date \o <<")">>

\* 'ARR-<id>-ZZZZhhmm-ZZZZhhmm' and a '-REG/07C4935 DOF/yymmdd)' line: the
\* header of the messages of the 2024 workbooks.
TgArr(dep_time, arr_time_digits, date) ==
    <<"(", "A", "R", "R", "-", "Z", "Z", "Z", "Z", "Z", "-", "Z", "Z", "Z", "Z">> \o dep_time \o Chars__ZZZZ \o arr_time_digits
        \o <<"\n", "-", "R", "E", "G", "/", "0", "7", "C", "4", "9", "3", "5", " ", "D", "O", "F", "/">> \o date \o <<")">>

\* A header with one more field before the arrival time, with and without
\* a date after it.
TgArrLong(arr_time_digits, date) ==
    <<"(", "A", "R", "R", "-", "Z", "Z", "Z", "Z", "Z", "-", "Z", "Z", "Z", "Z", "0", "9", "0", "0", "-", "U", "U", "W", "V">> \o Chars__ZZZZ \o arr_time_digits
        \o (IF date = <<>> THEN <<>> ELSE <<"\n", "-", "R", "E", "G", "/", "0", "7", "C", "4", "9", "3", "5", " ", "D", "O", "F", "/">> \o date)
        \o <<")">>

TgDates == {<<"2", "4", "0", "1", "0", "1">>, <<"2", "4", "0", "2", "3", "0">>}

TgDepTimes == {<<"0", "9", "0", "0">>, <<"2", "3", "3", "0">>}

TgArrTimes == {<<"1", "5", "1", "5">>, <<"0", "0", "3", "0">>}

TgShrTexts == {TgShr(t, d) : t \in TgDepTimes \cup {<<>>}, d \in TgDates \cup {<<>>}}

TgDepTexts == {<<>>} \cup {TgDep(t, <<"2", "4", "0", "1", "0", "1">>) : t \in TgDepTimes}

TgArrTexts ==
    {<<>>}
    \cup {TgArr(<<"0", "9", "0", "0">>, t, d) : t \in TgArrTimes, d \in TgDates}
    \cup {TgArrLong(t, d) : t \in TgArrTimes, d \in {<<>>, <<"2", "4", "0", "1", "0", "1">>}}

\* The SHR texts of a single parse_shr_message call.
\* Ten-digit national numbers, as in tests/test_telegram_parser.py.
ShrNumbers == {NumStr(91234, 5) \o NumStr(56789, 5), NumStr(98765, 5) \o NumStr(43210, 5)}

ShrStyles == {"plus7", "eight", "eight_paren", "plus7_spaced"}

\* The ways the test message writes a number.
ShrWritten(d, style) ==
    IF style = "plus7" THEN <<"+", "7">> \o d
    ELSE IF style = "eight" THEN <<"8">> \o d
    ELSE IF style = "eight_paren"
    THEN <<"8", "(">> \o SubSeq(d, 1, 3) \o <<")">> \o SubSeq(d, 4, 6) \o <<"-">>
         \o SubSeq(d, 7, 8) \o <<"-">> \o SubSeq(d, 9, 10)
    ELSE <<"+", "7", " ">> \o SubSeq(d, 1, 3) \o <<" ">> \o SubSeq(d, 4, 6) \o <<" ">>
         \o SubSeq(d, 7, 8) \o <<" ">> \o SubSeq(d, 9, 10)

\* What stands between two numbers of the OPR/ field.
PhoneSeparators == {<<" ">>, <<"\n">>, <<",", " ">>, <<" ", "/", " ">>, <<";">>}

Chars_ShrHead ==
    <<"(", "S", "H", "R", "-", "Z", "Z", "Z", "Z", "Z", "\n", "-", "Z", "Z", "Z", "Z",
      "0", "9", "0", "0", "\n", "O", "P", "R", "/", "cyr_TE", "cyr_IE", "cyr_ES", "cyr_TE", " ">>

Chars_ShrMiddle ==
    <<" ", "R", "E", "G", "/", "T", "E", "S", "T", "1", "2", "3", " ", "T", "Y", "P", "/",
      "B", "L", "A", "\n", "cyr_ES", "cyr_VE", " ">>

Chars_ShrTail == <<" ", "S", "I", "D", "/">> \o NumStr(12345, 5) \o NumStr(67890, 5) \o <<")">>

TollFree == NumStr(80055, 5) \o NumStr(53535, 5)

\* OPR/<name> <first><separator><second> REG/... <third> SID/...)
ShrPhoneText(first, sep, second, third) ==
    Chars_ShrHead \o first \o sep \o second \o Chars_ShrMiddle \o third \o Chars_ShrTail

ShrPhoneTexts ==
    {ShrPhoneText(ShrWritten(NumStr(91234, 5) \o NumStr(56789, 5), s1), sep,
                  ShrWritten(NumStr(98765, 5) \o NumStr(43210, 5), s2),
                  ShrWritten(TollFree, s3)) :
        s1 \in ShrStyles, sep \in PhoneSeparators, s2 \in ShrStyles,
        s3 \in {"plus7_spaced", "eight"}}

\* Dates and times that exist and that do not.
ShrDates ==
    {NumStr(240101, 6), NumStr(240229, 6), NumStr(230229, 6), NumStr(240230, 6),
     NumStr(241301, 6), NumStr(240132, 6), NumStr(240000, 6)}

ShrTimes == {NumStr(900, 4), NumStr(2359, 4), NumStr(2400, 4), NumStr(960, 4), NumStr(2575, 4)}

ShrDateTexts == {TgShr(t, d) : t \in ShrTimes \cup {<<>>}, d \in ShrDates \cup {<<>>}}

\* Coordinates on the globe, on its edge and off it, and strings that are
\* no coordinate.
ShrCoords ==
    {<<>>,
     NumStr(5530, 4) \o <<"N">> \o NumStr(3730, 5) \o <<"E">>,
     NumStr(553012, 6) \o <<"S">> \o NumStr(373012, 7) \o <<"W">>,
     NumStr(9000, 4) \o <<"N">> \o NumStr(18000, 5) \o <<"E">>,
     NumStr(9001, 4) \o <<"N">> \o NumStr(3730, 5) \o <<"E">>,
     NumStr(9999, 4) \o <<"N">> \o NumStr(3737, 5) \o <<"E">>,
     NumStr(5530, 4) \o <<"N">> \o NumStr(19999, 5) \o <<"E">>,
     NumStr(5560, 4) \o <<"N">> \o NumStr(3760, 5) \o <<"E">>,
     NumStr(55301, 5) \o <<"N">> \o NumStr(3730, 5) \o <<"E">>}

\* '(SHR-ZZZZZ', '-ZZZZ0900', '-DEP/<coord> DEST/<coord> DOF/240101 TYP/BLA)'
ShrCoordText(dep, dest) ==
    <<"(", "S", "H", "R", "-", "Z", "Z", "Z", "Z", "Z", "\n", "-">> \o Chars_ZZZZ
        \o NumStr(900, 4) \o <<"\n", "-">>
        \o (IF dep = <<>> THEN <<>> ELSE Chars_DEP \o dep \o <<" ">>)
        \o (IF dest = <<>> THEN <<>> ELSE Chars_DEST \o dest \o <<" ">>)
        \o Chars_DOF \o NumStr(240101, 6) \o <<" ", "T", "Y", "P", "/", "B", "L", "A", ")">>

ShrCoordTexts == {ShrCoordText(dep, dest) : dep \in ShrCoords, dest \in ShrCoords}

\* Names, and what the messages write after a name.
OperatorNames ==
    {<<"I", "V", "A", "N", "O", "V">>, <<"I", "V", "A", "N", "O", "V", "4">>,
     <<"I", "V", "A", "N", "\n", "P", "E", "T", "R">>,
     <<"I", "V", "A", "N", " ", "P", "E", "T", "R", "O", "V">>,
     <<"cyr_I", "cyr_VE", "cyr_A", "cyr_EN", " ", "cyr_PE", "cyr_IE", "cyr_TE", "cyr_ER", "4">>}

OperatorTails ==
    {<<>>, <<" ", "1", "2">>, <<" ", "1", "2", " ", "3", "4">>,
     <<" ", "1", "\n", "2", " ", " ", "3">>,
     <<" ">> \o ShrWritten(NumStr(91234, 5) \o NumStr(56789, 5), "plus7"),
     <<" ", "5", " ">> \o ShrWritten(NumStr(91234, 5) \o NumStr(56789, 5), "eight")}

OperatorEnds ==
    {<<" ", "R", "E", "G", "/", "0", "0", "0", "1", " ", "T", "Y", "P", "/", "B", "L", "A", ")">>,
     <<"\n", "T", "Y", "P", "/", "B", "L", "A", ")">>,
     <<" ", "S", "I", "D", "/", "7", "7", "7", ")">>,
     <<"pilcrow", "R", "M", "K", "/", "X", ")">>,
     <<>>}

\* '(SHR-ZZZZZ', '-ZZZZ0900', '-DOF/240101 OPR/<name><tail><end>'
ShrOperatorTexts ==
    {<<"(", "S", "H", "R", "-", "Z", "Z", "Z", "Z", "Z", "\n", "-">> \o Chars_ZZZZ
        \o NumStr(900, 4) \o <<"\n", "-">> \o Chars_DOF \o NumStr(240101, 6)
        \o <<" ", "O", "P", "R", "/">> \o name \o tail \o end :
        name \in OperatorNames, tail \in OperatorTails, end \in OperatorEnds}

ShrTexts == ShrPhoneTexts \cup ShrDateTexts \cup ShrCoordTexts \cup ShrOperatorTexts

InitShr ==
    /\ shr_message \in ShrTexts
    /\ shr_data = NoShrData
    /\ shr_operator = NoOperator
    /\ IdleBut("shr")

CallParseShrMessage ==
    /\ ~shr_data.done
    /\ shr_data' = [done |-> TRUE, result |-> parse_shr_message(shr_message)]
    /\ UNCHANGED <<shr_message, shr_operator, not_shr>>

CallExtractOperator ==
    /\ ~shr_operator.done
    /\ shr_operator' = [done |-> TRUE, result |-> _extract_operator(shr_message)]
    /\ UNCHANGED <<shr_message, shr_data, not_shr>>

NextShr == CallParseShrMessage \/ CallExtractOperator

SpecShr == InitShr /\ [][NextShr]_vars

\* The messages of a row of 2025.xlsx, as in test_improved_parser.py:
\* '-TITLE IDEP', '-SID ...', '-ADD 250124', '-ATD 0600', '-ADEP ZZZZ',
\* '-ADEPZ <coord>', '-PAP 0', the coordinate line left out when <<>>, and
\* a DOF/ field added when asked for.
Message2025(title, date_key, time_key, time, point_key, coord, dof) ==
    Join(<<<<"-">> \o Chars_TITLE \o <<" ">> \o title,
           <<"-", "S", "I", "D", " ">> \o NumStr(77722, 5) \o NumStr(51137, 5),
           <<"-">> \o date_key \o <<" ">> \o NumStr(250124, 6),
           <<"-">> \o time_key \o <<" ">> \o time,
           <<"-">> \o point_key \o <<" ">> \o Chars_ZZZZ>>
         \o (IF coord = <<>> THEN <<>> ELSE <<<<"-">> \o point_key \o <<"Z", " ">> \o coord>>)
         \o (IF dof THEN <<<<"-">> \o Chars_DOF \o NumStr(250124, 6)>> ELSE <<>>)
         \o <<<<"-", "P", "A", "P", " ", "0">>>>, <<"\n">>)

Coords2025 ==
    {<<>>,
     NumStr(440846, 6) \o <<"N">> \o NumStr(430829, 7) \o <<"E">>,
     NumStr(5601, 4) \o <<"N">> \o NumStr(3801, 5) \o <<"E">>}

Dep2025Texts ==
    {<<>>}
    \cup {Message2025(Chars_IDEP, Chars_ADD, Chars_ATD, NumStr(600, 4),
                      <<"A", "D", "E", "P">>, c, dof) :
            c \in Coords2025, dof \in BOOLEAN}

Arr2025Texts ==
    {<<>>}
    \cup {Message2025(Chars_IARR, Chars_ADA, Chars_ATA, NumStr(1250, 4),
                      <<"A", "D", "A", "R", "R">>, c, dof) :
            c \in Coords2025, dof \in BOOLEAN}

Shr2025Texts ==
    {ShrCoordText(dep, dest) :
        dep \in {<<>>, NumStr(5530, 4) \o <<"N">> \o NumStr(3730, 5) \o <<"E">>},
        dest \in {<<>>, NumStr(5540, 4) \o <<"N">> \o NumStr(3740, 5) \o <<"E">>}}

Init2025 ==
    /\ tg_shr \in Shr2025Texts
    /\ tg_dep \in Dep2025Texts
    /\ tg_arr \in Arr2025Texts
    /\ tg_arr_data = NoArrData
    /\ tg_flight = NoTgFlight
    /\ IdleBut("telegram")

CallParseFlightMessages2025 ==
    /\ ~tg_flight.done
    /\ tg_flight' = [done |-> TRUE,
                     result |-> parse_flight_messages_2025(tg_shr, tg_dep, tg_arr)]
    /\ UNCHANGED <<tg_shr, tg_dep, tg_arr, tg_arr_data, not_telegram>>

Next2025 == CallParseFlightMessages2025

Spec2025 == Init2025 /\ [][Next2025]_vars

InitTelegram ==
    /\ tg_shr \in TgShrTexts
    /\ tg_dep \in TgDepTexts
    /\ tg_arr \in TgArrTexts
    /\ tg_arr_data = NoArrData
    /\ tg_flight = NoTgFlight
    /\ IdleBut("telegram")

CallParseArrMessage ==
    /\ ~tg_arr_data.done
    /\ tg_arr_data' = [done |-> TRUE, result |-> parse_arr_message(tg_arr)]
    /\ UNCHANGED <<tg_shr, tg_dep, tg_arr, tg_flight, not_telegram>>

CallParseFlightMessages ==
    /\ ~tg_flight.done
    /\ tg_flight' = [done |-> TRUE, result |-> parse_flight_messages(tg_shr, tg_dep, tg_arr)]
    /\ UNCHANGED <<tg_shr, tg_dep, tg_arr, tg_arr_data, not_telegram>>

NextTelegram == CallParseArrMessage \/ CallParseFlightMessages

SpecTelegram == InitTelegram /\ [][NextTelegram]_vars

(***************************************************************************)
(* DataProcessor() over region datasets, and _enrich_with_region_data       *)
(***************************************************************************)
\* The file is missing, is not JSON, has no "features", or holds regions.
GeojsonFiles ==
    {[kind |-> k, regions |-> <<>>] : k \in {"missing", "not_json", "no_features", "ok"}}
    \cup {[kind |-> "ok", regions |-> l.regions] : l \in Locators \ {NoLocator}}

EnrichFlights ==
    [departure_coords : EndPoints,
     arrival_coords : {NoPoint, Point(60000000, 30000000)},
     destination_coords : {NoPoint, Point(55150000, 37616667), Point(60000000, 30000000)}]

InitStartup ==
    /\ geojson \in GeojsonFiles
    /\ processor = NoProcessor
    /\ enrich_flight \in EnrichFlights
    /\ enrich_result = NoEnrichResult
    /\ IdleBut("startup")

Construct ==
    /\ ~processor.constructed
    /\ processor' = DataProcessor_init(geojson)
    /\ UNCHANGED <<geojson, enrich_flight, enrich_result, not_startup>>

CallEnrichWithRegionData ==
    /\ processor.constructed
    /\ ~processor.raised
    /\ ~enrich_result.done
    /\ enrich_result' =
           [done |-> TRUE,
            added |-> _enrich_with_region_data(processor.region_locator, enrich_flight)]
    /\ UNCHANGED <<geojson, processor, enrich_flight, not_startup>>

NextStartup == Construct \/ CallEnrichWithRegionData

SpecStartup == InitStartup /\ [][NextStartup]_vars

(***************************************************************************)
(* DataProcessor.process_excel_file over small workbooks                   *)
(***************************************************************************)
MaxRows == 2

Chars_SHR == <<"S", "H", "R">>

\* An SHR message with a DOF/ date and a ZZZZ time, either left out when <<>>.
ShrMessage(date, time) ==
    Chars_SHR
        \o (IF date = <<>> THEN <<>> ELSE <<" ">> \o Chars_DOF \o date)
        \o (IF time = <<>> THEN <<>> ELSE <<" ">> \o Chars_ZZZZ \o time)

GoodDate == <<"2", "5", "0", "1", "0", "1">>

GoodTime == <<"0", "9", "0", "0">>

\* Month 13, 30 February, and no date.
OtherDates == {<<"2", "5", "1", "3", "0", "1">>, <<"2", "5", "0", "2", "3", "0">>, <<>>}

\* Hour 24, minute 60.
OtherTimes == {<<"2", "4", "0", "0">>, <<"0", "9", "6", "0">>}

GoodShr == PyStr(ShrMessage(GoodDate, GoodTime))

\* An SHR cell: empty (NaN), '', blank, a line break Excel stored, a message.
ShrCells ==
    {PyNone, PyStr(<<>>), PyStr(<<" ">>), PyStr(Chars_x000D), GoodShr}
    \cup {PyStr(ShrMessage(d, GoodTime)) : d \in OtherDates}
    \cup {PyStr(ShrMessage(GoodDate, t)) : t \in OtherTimes}

Chars_MSK == <<"M", "S", "K">>

\* The <<centre cell, SHR cell>> of a row.
BatchRows ==
    {<<PyStr(Chars_MSK), s>> : s \in ShrCells}
    \cup {<<c, GoodShr>> : c \in {PyNone, PyStr(<<" ">>)}}

ColumnLists ==
    {<<Header(CentreColumn), Header("SHR"), Header("DEP"), Header("ARR")>>,
     <<Header("SHR"), Header("DEP"), Header("ARR")>>,
     <<Header("shr"), Header("dep")>>,
     <<Header(CentreColumn), Header("SHR")>>,
     <<Header("SHR")>>,
     <<IntHeader, Header("SHR")>>}

\* The row of a sheet with these columns: a cell under every header, the
\* DEP and ARR cells empty.
RowOf(columns, r) ==
    [name \in {columns[k].name : k \in 1..Len(columns)} |->
        CASE name = CentreColumn -> r[1]
          [] name \in {"SHR", "shr"} -> r[2]
          [] OTHER -> PyNone]

RowSeqs(columns) ==
    UNION {[1..n -> {RowOf(columns, r) : r \in BatchRows}] : n \in 0..MaxRows}

SheetNames == {Chars_Result_1, <<"2", "0", "2", "5">>, Chars_List1}

Sheets ==
    UNION {{[sheet_name |-> name, columns |-> columns, rows |-> rows] :
               name \in SheetNames, rows \in RowSeqs(columns)} :
           columns \in ColumnLists}

\* The sheets that follow the first one of a workbook of two.
SecondSheets ==
    {[sheet_name |-> <<"2", "0", "2", "5">>, columns |-> columns,
      rows |-> <<RowOf(columns, <<PyStr(Chars_MSK), GoodShr>>)>>] :
        columns \in {<<Header("SHR"), Header("DEP"), Header("ARR")>>,
                     <<IntHeader, Header("SHR")>>}}

Workbooks ==
    {[readable |-> FALSE, sheets |-> <<>>], [readable |-> TRUE, sheets |-> <<>>]}
    \cup {[readable |-> TRUE, sheets |-> <<s>>] : s \in Sheets}
    \cup {[readable |-> TRUE, sheets |-> <<s, t>>] : s \in Sheets, t \in SecondSheets}

InitBatch ==
    /\ excel_file \in Workbooks
    /\ batch_result = NoBatchResult
    /\ IdleBut("batch")

CallProcessExcelFile ==
    /\ ~batch_result.done
    /\ batch_result' = [done |-> TRUE, result |-> process_excel_file(excel_file)]
    /\ UNCHANGED <<excel_file, not_batch>>

NextBatch == CallProcessExcelFile

SpecBatch == InitBatch /\ [][NextBatch]_vars

(***************************************************************************)
(* Claims about the phone normalizer                                       *)
(***************************************************************************)
PhoneCalled == phone # NotCalled /\ phone_result # NotCalled

\* ^7[0-9]{10}$
IsCanonicalPhone(s) ==
    /\ Len(s) = 11
    /\ s[1] = "7"
    /\ \A i \in 1..Len(s) : IsAsciiDigit(s[i])

\* C1: normalize_phone_number returns for every input without raising, every
\* result that is not None is 11 ASCII digits beginning with '7', and so is
\* every entry of a normalized list.
C1_CanonicalOrAbsent ==
    /\ PhoneCalled =>
          /\ phone_result.tag \in {"None", "str"}
          /\ phone_result.tag = "str" => IsCanonicalPhone(phone_result.val)
    /\ phone_numbers.done =>
          \A i \in 1..Len(phone_numbers.items) : IsCanonicalPhone(phone_numbers.items[i])

\* The input with every character that is not a digit removed.
DigitsOfInput == SelectSeq(phone.val, IsDigit)

C3_NonRussianRejected ==
    (/\ PhoneCalled
     /\ phone.tag = "str"
     /\ Len(phone.val) >= 2
     /\ phone.val[1] = "+"
     /\ IsDigit(phone.val[2])
     /\ phone.val[2] \notin {"7"}) => phone_result = PyNone

\* C4: 11 digits beginning with '77' are rejected: the result is None.
C4_DoubledSevenRejected ==
    (/\ PhoneCalled
     /\ phone.tag = "str"
     /\ Len(DigitsOfInput) = 11
     /\ DigitsOfInput[1] = "7"
     /\ DigitsOfInput[2] = "7") => phone_result = PyNone

(***************************************************************************)
(* Claims about the coordinate decoder                                     *)
(***************************************************************************)
LatlonCalled == compact # NotCalled /\ latlon # NotParsed

\* The token as the decoder reads it: trimmed, upper-cased, Cyrillic
\* direction letters mapped to N/S/E/W.
Normalized == translate(upper(strip(compact.val)))

\* s is {4 or 6 digits}{N|S}{5 or 7 digits}{E|W}: all digits but for one
\* N or S after 4 or 6 of them and one E or W at the very end, 5 or 7 digits
\* after the N or S.
StrictForm(s) ==
    \E p \in 1..Len(s) :
        /\ p - 1 \in {4, 6}
        /\ Len(s) - p - 1 \in {5, 7}
        /\ s[p] \in {"N", "S"}
        /\ s[Len(s)] \in {"E", "W"}
        /\ \A i \in 1..(Len(s) - 1) : i # p => IsDigit(s[i])

\* The place of the N or S in a token of the strict form.
LatLetter(s) == CHOOSE p \in 1..Len(s) : s[p] \in {"N", "S"}

\* x (in 1e-6 degree) is deg + mm/60 + ss/3600 rounded to 6 decimals:
\* 9 * x is within 4.5 of 9e6 * deg + 2500 * (60 * mm + ss).
IsRounded(x, deg, mm, ss) ==
    LET d == 9 * (x - deg * 1000000) - 2500 * (60 * mm + ss)
    IN  -4 <= d /\ d <= 4

C6_RangeInvariant ==
    LatlonCalled =>
        /\ latlon.status = "returned"
        /\ latlon.lat.some <=> latlon.lon.some
        /\ latlon.lat.some =>
              /\ -90000000 <= latlon.lat.v /\ latlon.lat.v <= 90000000
              /\ -180000000 <= latlon.lon.v /\ latlon.lon.v <= 180000000

\* A token of the strict form 5 seconds north of 90 degrees has been given
\* and nothing decoded.
C6_Witness ==
    /\ compact = PyStr(NumStr(900005, 6) \o <<"N">> \o NumStr(3706, 5) \o <<"E">>)
    /\ latlon = Returned(NoneF, NoneF)

\* C7: parse_latlon never raises, and returns (None, None) for an input that
\* is no string or that, trimmed, upper-cased and with the Cyrillic letters
\* mapped, is not of the strict form.
C7_MalformedAbsent ==
    LatlonCalled =>
        /\ latlon.status = "returned"
        /\ (compact.tag # "str" \/ ~StrictForm(Normalized)) =>
              latlon = Returned(NoneF, NoneF)

\* A token with a 5-digit latitude has been given and nothing decoded.
C7_Witness ==
    /\ compact = PyStr(NumStr(55937, 5) \o <<"N">> \o NumStr(55937, 5) \o <<"E">>)
    /\ latlon = Returned(NoneF, NoneF)

\* C8: the token synthesised from a decoded coordinate decodes again, to a
\* point within 1e-4 degree of it in latitude and in longitude.
C8_RoundTrip ==
    zone_latlon # NotParsed =>
        /\ zone_latlon.status = "returned"
        /\ zone_latlon.lat.some /\ zone_latlon.lon.some
        /\ Abs(zone_latlon.lat.v - latlon.lat.v) <= 100
        /\ Abs(zone_latlon.lon.v - latlon.lon.v) <= 100

(***************************************************************************)
(* Claims about the timestamps of parse_row                                *)
(***************************************************************************)
RowParsed == flight.status = "returned"

\* C9: in a record with both timestamps the duration is not negative,
\* whatever the dates and times of departure and arrival.
C9_DurationNonNegative ==
    (RowParsed /\ flight.start_ts.some /\ flight.end_ts.some) =>
        /\ flight.duration_min.some
        /\ flight.duration_min.v >= 0

\* The departure and the arrival the messages state, in minutes.
StatedDeparture == datetime(flight.dep.date, flight.dep.time_hhmm)

StatedArrival == datetime(flight.arr.date, flight.arr.time_hhmm)

BothStated ==
    /\ flight.dep.date.some /\ flight.dep.time_hhmm.some
    /\ flight.arr.date.some /\ flight.arr.time_hhmm.some

ArrivalStated == flight.arr.date.some /\ flight.arr.time_hhmm.some

DashText(title, dkey, date, tkey, time) ==
    PyStr(MessageText(title, dkey, NumStr(date, 6), tkey, NumStr(time, 4), "dash"))

\* C10: with both stated and the arrival earlier than the departure, end_ts
\* is the arrival plus exactly 24 hours; otherwise end_ts is the arrival as
\* stated; duration_min is the minutes from start_ts to end_ts (0600 to 1250
\* on one date: 410; 2330 to 0015: 45).
C10_MidnightRollover ==
    RowParsed =>
        /\ (BothStated /\ StatedArrival < StatedDeparture) =>
              flight.end_ts = SomeI(StatedArrival + 24 * 60)
        /\ (ArrivalStated /\ ~(BothStated /\ StatedArrival < StatedDeparture)) =>
              flight.end_ts = SomeI(StatedArrival)
        /\ ~ArrivalStated => flight.end_ts = NoneI
        /\ BothStated =>
              /\ flight.start_ts = SomeI(StatedDeparture)
              /\ flight.duration_min = SomeI(flight.end_ts.v - flight.start_ts.v)
        /\ (/\ dep_text = DashText(Chars_IDEP, Chars_ADD, 240101, Chars_ATD, 600)
            /\ arr_text = DashText(Chars_IARR, Chars_ADA, 240101, Chars_ATA, 1250)) =>
              flight.duration_min = SomeI(410)

\* ATD 2330 and ATA 0015 on 2024-01-01: end_ts is 00:15 of the next day,
\* the duration 45 minutes.
C10_Witness ==
    /\ dep_text = DashText(Chars_IDEP, Chars_ADD, 240101, Chars_ATD, 2330)
    /\ arr_text = DashText(Chars_IARR, Chars_ADA, 240101, Chars_ATA, 15)
    /\ flight.status = "returned"
    /\ flight.duration_min = SomeI(45)
    /\ flight.end_ts.v \div 1440 = flight.start_ts.v \div 1440 + 1
    /\ flight.end_ts.v % 1440 = 15

(***************************************************************************)
(* Claims about parse_block                                                *)
(***************************************************************************)
\* C11: every key of parse_block's result equals its own upper-case form and
\* no value, whether taken from a "-KEY value" line or from a KEY/value
\* token, ends with "/".
C11_BlockInvariant ==
    block_result.done =>
        \A i \in DOMAIN block_result.entries :
            LET e == block_result.entries[i] IN
            /\ e.key = upper(e.key)
            /\ e.value = <<>> \/ e.value[Len(e.value)] # "/"

(***************************************************************************)
(* Claims about parse_zone                                                 *)
(***************************************************************************)
ZoneCalled == zone_result # NoZone

CircleMatches == round_zone(zone_text.val).found

PolygonMatches == polygon_zone(zone_text.val).found

NameMatches == name_zone(zone_text.val).found

\* The whitespace-separated tokens after the first "ZONA" a coordinate
\* follows.
ZonaTokens == split_whitespace(polygon_zone(zone_text.val).text)

Decodes(token) ==
    LET ll == parse_latlon(PyStr(token)) IN ll.lat.some /\ ll.lon.some

\* The first coordinate list of the text has a token that decodes.
PolygonDecodes ==
    /\ PolygonMatches
    /\ \E i \in DOMAIN coord_strings(polygon_zone(zone_text.val).text) :
          Decodes(coord_strings(polygon_zone(zone_text.val).text)[i])

C13_PolygonOfThree ==
    (ZoneCalled /\ zone_result.type = "polygon") =>
        /\ Len(ZonaTokens) >= 3
        /\ zone_result.coordinates = decoded_coords(ZonaTokens)

\* C14: the centre of a returned circle has a latitude and a longitude, both
\* in range, it is the decoded token of the pattern, and "/ZONA R0,7
\* 5509N03737E/" gives centre (55.15, 37.616667) and radius 0.7.
C14_CircleCentreValid ==
    (ZoneCalled /\ zone_result.type = "circle") =>
        /\ zone_result.center.lat.some /\ zone_result.center.lon.some
        /\ zone_result.center.lat.v \in -90000000..90000000
        /\ zone_result.center.lon.v \in -180000000..180000000
        /\ zone_text = PyStr(<<"/", "Z", "O", "N", "A", " ", "R", "0", ",", "7", " ", "5", "5", "0", "9", "N", "0", "3", "7", "3", "7", "E", "/">>) =>
              /\ zone_result.center = [lat |-> SomeF(55150000), lon |-> SomeF(37616667)]
              /\ zone_result.radius.mant * 10 = 7 * Pow10(zone_result.radius.scale)

(***************************************************************************)
(* Claims about region resolution                                          *)
(***************************************************************************)
\* The anchor as stated: the departure point if it is present, else the
\* arrival point, a coordinate of zero being present.
search_anchor_present(dep_lat, dep_lon, arr_lat, arr_lon) ==
    IF dep_lat.some /\ dep_lon.some THEN <<<<dep_lat.v, dep_lon.v>>>>
    ELSE IF arr_lat.some /\ arr_lon.some THEN <<<<arr_lat.v, arr_lon.v>>>>
    ELSE <<>>

\* A point that is present: neither coordinate is None.
endpoint_points_present(lat, lon) ==
    IF lat.some /\ lon.some THEN <<<<lat.v, lon.v>>>> ELSE <<>>


\* The radii as stated, in 1e-6 degree.
StatedRadii == <<10000, 50000, 100000, 150000, 200000, 250000, 500000,
                 1000000, 2000000, 3000000, 5000000>>

\* C17: get_flight_region returns the region of the departure coordinate if
\* that is present and lies in a region, otherwise that of the arrival
\* coordinate, otherwise that of the first zone coordinate that resolves,
\* otherwise what the radial search around the present end point finds,
\* otherwise nothing.
C17_RegionPriority ==
    region_result.op = "get_flight_region" =>
        LET f == region_flight
            found(points) == probe(region_locator, points).region
            anchor == search_anchor_present(f.dep.lat, f.dep.lon, f.arr.lat, f.arr.lon)
            dep_region == found(endpoint_points_present(f.dep.lat, f.dep.lon))
            arr_region == found(endpoint_points_present(f.arr.lat, f.arr.lon))
            zone_region == found(zone_points(f.zone))
            near_region == IF anchor = <<>> THEN NoRegion
                           ELSE found(search_points(anchor[1]))
        IN  region_result.region =
                IF ~region_locator.present THEN NoRegion
                ELSE IF dep_region.some THEN dep_region
                ELSE IF arr_region.some THEN arr_region
                ELSE IF zone_region.some THEN zone_region
                ELSE near_region

\* C18: _search_region_in_vicinity probes around the departure point if it
\* is present, else the arrival point: the k-th probe lies at the
\* ((k-1) div 8 + 1)-th stated radius, the 8 probes of a radius in 8 different
\* directions, no probe before the last finds a region, the region returned
\* is that of the last probe, and nothing is returned after 88 probes that
\* miss or when there is no anchor.
C18_RadialOrder ==
    region_result.op = "_search_region_in_vicinity" =>
        LET f == region_flight
            calls == region_result.calls
            anchor == search_anchor_present(f.dep.lat, f.dep.lon, f.arr.lat, f.arr.lon)
            radius(k) == LET a == Abs(calls[k][1] - anchor[1][1])
                             b == Abs(calls[k][2] - anchor[1][2])
                         IN  IF a > b THEN a ELSE b
        IN  IF anchor = <<>> \/ ~region_locator.present
            THEN calls = <<>> /\ ~region_result.region.some
            ELSE /\ Len(calls) \in 1..88
                 /\ \A k \in DOMAIN calls :
                       /\ radius(k) = StatedRadii[((k - 1) \div 8) + 1]
                       /\ Abs(calls[k][1] - anchor[1][1]) \in {0, radius(k)}
                       /\ Abs(calls[k][2] - anchor[1][2]) \in {0, radius(k)}
                       /\ \A j \in 1..(k - 1) : calls[j] # calls[k]
                       /\ k < Len(calls)
                            => ~get_region(region_locator, calls[k][1], calls[k][2]).some
                 /\ region_result.region =
                        get_region(region_locator, calls[Len(calls)][1], calls[Len(calls)][2])
                 /\ ~region_result.region.some => Len(calls) = 88

(***************************************************************************)
(* Claims about the coordinates of parse_row                               *)
(***************************************************************************)
\* The chain as stated, before the zone: for each side by itself the
\* coordinate of its block, else that after DEP/ (DEST/) in the SHR text, else
\* that after the words "takeoff and landing".
shr_coords_per_side(s, adepz, adarrz) ==
    LET dep_match == IF adepz # <<>> THEN adepz
                     ELSE search_coord(s, Chars_DEP, {"N", "S"}, {"E", "W"})
        arr_match == IF adarrz # <<>> THEN adarrz
                     ELSE search_coord(s, Chars_DEST, {"N", "S"}, {"E", "W"})
    IN  <<IF dep_match = <<>> THEN proizvol(s) ELSE dep_match,
          IF arr_match = <<>> THEN proizvol(s) ELSE arr_match>>


RowCalled == flight # NoFlight

RowReturned == flight.status = "returned"

DepAerodrome == aerodrome_of(get(parse_block(dep_text), <<"A", "D", "E", "P">>))

ArrAerodrome == aerodrome_of(get(parse_block(arr_text), <<"A", "D", "A", "R", "R">>))

\* The tokens the stated chain gives the two sides, before the zone.
StatedTokens ==
    shr_coords_per_side(shr_text.val,
        block_coord(get(parse_block(dep_text), <<"A", "D", "E", "P", "Z">>)).token,
        block_coord(get(parse_block(arr_text), <<"A", "D", "A", "R", "R", "Z">>)).token)

\* The side has the coordinates of its aerodrome if that is found, else
\* those its token decodes to if it has one.
SideResolved(side, aerodrome, token) ==
    /\ aerodrome.found => (side.lat = aerodrome.lat /\ side.lon = aerodrome.lon)
    /\ (~aerodrome.found /\ token # <<>>) =>
          /\ side.lat = parse_latlon(PyStr(token)).lat
          /\ side.lon = parse_latlon(PyStr(token)).lon

\* C15: each side takes its coordinate from the first of aerodrome, block,
\* SHR DEP/ or DEST/ and "takeoff and landing" that yields one for that side,
\* whatever the other side has; an unresolved side still gets the later
\* steps when the other side is resolved.
C15_IndependentChain ==
    RowReturned =>
        /\ SideResolved(flight.dep, DepAerodrome, StatedTokens[1])
        /\ SideResolved(flight.arr, ArrAerodrome, StatedTokens[2])

\* The point of a zone the fallback uses: the centre of a circle, the
\* first vertex of a polygon.
ZonePoint(zona) ==
    IF zona.type = "circle" THEN zona.center
    ELSE [lat |-> SomeF(zona.coordinates[1].lat), lon |-> SomeF(zona.coordinates[1].lon)]

\* Two decimals of a degree: half a hundredth, in 1e-6 degree.
EncodingPrecision == 5000

Near(x, y) == x.some /\ y.some /\ Abs(x.v - y.v) <= EncodingPrecision

\* C16: when no aerodrome resolves and neither the blocks nor the SHR text
\* yield a coordinate, and the zone is a circle (a polygon), departure and
\* arrival lat and lon are present and equal the centre (the first vertex)
\* up to the encoding precision.
C16_ZoneFallback ==
    LET zona == parse_zone(shr_text) IN
    ( /\ RowReturned
      /\ ~DepAerodrome.found /\ ~ArrAerodrome.found
      /\ StatedTokens = <<<<>>, <<>>>>
      /\ zona.type \in {"circle", "polygon"} ) =>
        /\ Near(flight.dep.lat, ZonePoint(zona).lat)
        /\ Near(flight.dep.lon, ZonePoint(zona).lon)
        /\ Near(flight.arr.lat, ZonePoint(zona).lat)
        /\ Near(flight.arr.lon, ZonePoint(zona).lon)

\* C19: for a string SHR text and any DEP and ARR text parse_row returns a
\* record and does not raise, repeated keys and undecodable zone coordinates
\* included.
C19_NeverRaises ==
    (RowCalled /\ isinstance_str(shr_text)) => flight.status = "returned"

(***************************************************************************)
(* Claims about DataProcessor                                              *)
(***************************************************************************)
BatchCalled == batch_result.done

\* The rows of the sheets read as the 2025 or the SHR/DEP/ARR format: the
\* position of the sheet and the index of the row.
BatchInputRows ==
    {<<k, idx>> \in (1..Len(excel_file.sheets)) \X (0..(MaxRows - 1)) :
        LET sheet == excel_file.sheets[k]
        IN  /\ idx < Len(sheet.rows)
            /\ sheet.sheet_name # Chars_List1
            /\ \/ _is_2025_format(sheet.columns)
               \/ _is_shr_dep_arr_format(sheet.columns) = "yes"}

\* An entry of the returned 'errors' names the row.
RowRecorded(k, idx) ==
    \E n \in 1..Len(batch_result.result.errors) :
        LET e == batch_result.result.errors[n]
        IN  e.sheet_name = excel_file.sheets[k].sheet_name /\ e.row = SomeI(idx)

\* The flights of the sheets read as one of the two formats.
BatchFormatFlights ==
    SelectSeq(batch_result.result.flights,
              LAMBDA f : f.source_sheet # PyStr(Chars_Aggregated))

\* C20: no row is dropped silently: every row of a processed batch yields
\* one flight of the returned 'flights' or is recorded in the returned
\* 'errors' with its row index, rows with no SHR text and rows whose message
\* fails to parse included; so the flights are as many as the rows that
\* 'errors' does not record.
C20_NoRowDropped ==
    BatchCalled =>
        LET unrecorded == {r \in BatchInputRows : ~RowRecorded(r[1], r[2])}
        IN  Len(BatchFormatFlights) = Cardinality(unrecorded)


\* The sheet with the row of index idx alone.
RowAlone(sheet, idx) == [sheet EXCEPT !.rows = <<sheet.rows[idx + 1]>>]

\* The flights of the rows of a sheet from index idx on, each row processed
\* as the only row of the sheet.
RECURSIVE FlightsRowByRow(_, _)
FlightsRowByRow(sheet, idx) ==
    IF idx >= Len(sheet.rows) THEN <<>>
    ELSE _process_sheet(RowAlone(sheet, idx), sheet.sheet_name).flights
             \o FlightsRowByRow(sheet, idx + 1)

\* The same for the sheets of a workbook from position k on, the sheet the
\* loop passes over left out.
RECURSIVE BookRowByRow(_, _)
BookRowByRow(sheets, k) ==
    IF k > Len(sheets) THEN <<>>
    ELSE (IF sheets[k].sheet_name = Chars_List1 THEN <<>> ELSE FlightsRowByRow(sheets[k], 0))
             \o BookRowByRow(sheets, k + 1)

\* C21: rows are processed independently: the flights of a batch are, in the
\* order of the rows, the flights each row yields when it is processed alone,
\* so the record of a row depends on no other row and a row that fails to
\* parse keeps no other row from being processed and output.
C21_RowIsolation ==
    (BatchCalled /\ excel_file.readable) =>
        batch_result.result.flights = BookRowByRow(excel_file.sheets, 1)

\* A row that fails to parse (month 13) stands before a row that parses, in
\* the 2025 format, and the second row is output.
C21_Witness ==
    /\ BatchCalled
    /\ Len(excel_file.sheets) = 1
    /\ _is_2025_format(excel_file.sheets[1].columns)
    /\ excel_file.sheets[1].sheet_name # Chars_List1
    /\ Len(excel_file.sheets[1].rows) = 2
    /\ excel_file.sheets[1].rows[1][CentreColumn] = PyStr(Chars_MSK)
    /\ excel_file.sheets[1].rows[1]["SHR"]
           = PyStr(ShrMessage(<<"2", "5", "1", "3", "0", "1">>, GoodTime))
    /\ excel_file.sheets[1].rows[2]["SHR"] = GoodShr
    /\ Len(batch_result.result.flights) = 1
    /\ batch_result.result.flights[1].raw_shr_message = GoodShr.val


(***************************************************************************)
(* Claims about the construction of DataProcessor                          *)
(***************************************************************************)
\* C22: a missing or malformed region dataset is fatal at startup: the
\* construction of the processor raises, and no processor goes on with the
\* region lookup disabled.
C22_StartupFatal ==
    (processor.constructed /\ geojson.kind # "ok") => processor.raised


(***************************************************************************)
(* Claims about TelegramParser                                             *)
(***************************************************************************)
\* The SHR message carries a DOF that is a date and a ZZZZhhmm departure
\* time.
ShrDated == \E t \in TgDepTimes : tg_shr = TgShr(t, <<"2", "4", "0", "1", "0", "1">>)

\* C23: for an SHR message with DOF and a ZZZZhhmm time and an ARR message
\* 'ARR-<id>-ZZZZhhmm-ZZZZhhmm' followed by a '-REG/... DOF/...' line,
\* parse_arr_message returns no error and arrival_time is the digits of the
\* last ZZZZhhmm of the header, and parse_flight_messages returns no error
\* and holds departure_datetime, arrival_datetime and duration_minutes.
C23_ArrHeader ==
    \A t \in TgArrTimes, d \in TgDates :
        (ShrDated /\ tg_arr = TgArr(<<"0", "9", "0", "0">>, t, d)) =>
            /\ tg_arr_data.done =>
                   /\ ~tg_arr_data.result.error
                   /\ tg_arr_data.result.arrival_time = t
            /\ tg_flight.done =>
                   /\ ~tg_flight.result.error
                   /\ tg_flight.result.departure_datetime.date # <<>>
                   /\ tg_flight.result.arrival_datetime.date # <<>>
                   /\ tg_flight.result.duration_minutes.some

\* The numbers a text writes, each in the form 7XXXXXXXXXX.
Occurs(s, lit) == \E i \in 1..Len(s) : LitAt(s, i, lit)

NumbersWritten(s) ==
    {<<"7">> \o d : d \in {n \in ShrNumbers \cup {TollFree} :
                              \E style \in ShrStyles : Occurs(s, ShrWritten(n, style))}}

\* C24: parse_shr_message puts in phone_numbers the normalized form of every
\* phone number written in the message, whatever separates the numbers and
\* however they are written.
C24_EveryPhoneExtracted ==
    shr_data.done /\ NumbersWritten(shr_message) # {}
        => /\ ~shr_data.result.error
           /\ NumbersWritten(shr_message) \subseteq Range(shr_data.result.phone_numbers)

\* What a block holds under a key, when it holds something.
BlockHas(text, key) == truthy(get(parse_block(text), key))

\* The value of the first of DEP and ARR that holds the key is the value v.
FromDepOrArr(key, v) ==
    IF BlockHas(dep_text, key) THEN v = get(parse_block(dep_text), key)
    ELSE BlockHas(arr_text, key) => v = get(parse_block(arr_text), key)

\* C25: sid, uav_type and operator of the record parse_row returns are the
\* value of the DEP block when it has the field, else that of the ARR block
\* when it has the field; the SHR message counts only when both lack it.
C25_DepArrFirst ==
    flight.status = "returned"
        => /\ FromDepOrArr(<<"S", "I", "D">>, flight.sid)
           /\ FromDepOrArr(<<"T", "Y", "P">>, flight.uav_type)
           /\ FromDepOrArr(<<"O", "P", "R">>, flight.operator)

\* The DOF/ value of the text is no calendar date.
DateInvalid(message) ==
    LET d == _extract_date(message) IN
    /\ d # <<>>
    /\ ~valid_date(int(SubSeq(d, 1, 4)), int(SubSeq(d, 6, 7)), int(SubSeq(d, 9, 10)))

\* The -ZZZZhhmm marker of the text has hour > 23 or minute > 59.
TimeInvalid(message) ==
    LET t == _extract_departure_time(message) IN
    /\ t # <<>>
    /\ (int(SubSeq(t, 1, 2)) > 23 \/ int(SubSeq(t, 4, 5)) > 59)

\* C26: a message whose date or time does not exist yields no timestamp and
\* no 'error' result: its other fields are returned.
C26_InvalidRejected ==
    shr_data.done /\ (DateInvalid(shr_message) \/ TimeInvalid(shr_message))
        => /\ shr_data.result.departure_datetime.date = <<>>
           /\ ~shr_data.result.error
           /\ shr_data.result.parsed

\* A coordinate is absent or on the globe.
OnGlobe(coords) ==
    coords.some => /\ -90 * 1000000 <= coords.lat /\ coords.lat <= 90 * 1000000
                   /\ -180 * 1000000 <= coords.lon /\ coords.lon <= 180 * 1000000

\* C27: the departure_coords and destination_coords of a record lie within
\* -90..90 degrees of latitude and -180..180 degrees of longitude.
C27_CoordsInRange ==
    shr_data.done => /\ OnGlobe(shr_data.result.departure_coords)
                     /\ OnGlobe(shr_data.result.destination_coords)

\* C28: in the 2025 flow a record whose SHR text has no DEP/ coordinate
\* takes its departure_coords from the ADEPZ line of the DEP message, and
\* one whose SHR text has no DEST/ coordinate takes its destination_coords
\* from the ADARRZ line of the ARR message.
C28_CoordsFromDepArr ==
    tg_flight.done
        => /\ (/\ ~_extract_coordinates(tg_shr, Chars_DEP).some
               /\ _extract_adepz_coordinates(tg_dep).some)
                  => tg_flight.result.departure_coords = _extract_adepz_coordinates(tg_dep)
           /\ (/\ ~_extract_coordinates(tg_shr, Chars_DEST).some
               /\ _extract_adarrz_coordinates(tg_arr).some)
                  => tg_flight.result.destination_coords = _extract_adarrz_coordinates(tg_arr)

\* C29: the operator _extract_operator returns does not end with a digit.
C29_NoTrailingDigit ==
    shr_operator.done /\ shr_operator.result.some /\ shr_operator.result.val # <<>>
        => ~IsDigit(shr_operator.result.val[Len(shr_operator.result.val)])

\* A point given with a latitude or a longitude of exactly 0.
OnZeroLine(point) == point.lat.some /\ point.lon.some /\ (point.lat.v = 0 \/ point.lon.v = 0)

\* The point left out when it lies on the equator or the zero meridian.
WithoutZero(point) == IF OnZeroLine(point) THEN NoPoint ELSE point

\* The call made, repeated with the points on a zero line left out.
WithoutZeroResult ==
    IF region_result.op = "get_flight_region"
    THEN get_flight_region(region_locator, WithoutZero(region_flight.dep),
                           WithoutZero(region_flight.arr), region_flight.zone)
    ELSE _search_region_in_vicinity(region_locator,
             WithoutZero(region_flight.dep).lat, WithoutZero(region_flight.dep).lon,
             WithoutZero(region_flight.arr).lat, WithoutZero(region_flight.arr).lon)

====
